---- MODULE Spec2Model ----
(***************************************************************************)
(* A model of the resource Datastore (package resource): collections,      *)
(* items, tags and folders stored as key/value pairs in an ordered         *)
(* transactional store (badger).  Strings are sequences of one-character   *)
(* strings, so that byte prefixes, the "::" key separator and the "/" path *)
(* separator behave as they do in the code.  The store is a function from  *)
(* key strings to values.                                                  *)
(***************************************************************************)
EXTENDS Integers, Sequences, FiniteSets, TLC

VARIABLES db, last, flight, iterPending, codec

vars == <<db, last, flight, iterPending, codec>>

(***************************************************************************)
(* Strings                                                                 *)
(***************************************************************************)
HasPrefix(s, p) == Len(p) <= Len(s) /\ SubSeq(s, 1, Len(p)) = p

Drop(s, n) == SubSeq(s, n + 1, Len(s))

(* The index of the leftmost occurrence of sub in s, 0 when there is none. *)
MatchAt(s, sub, i) == \A j \in 1..Len(sub) : s[i + j - 1] = sub[j]

Index(s, sub) ==
    LET at == {i \in 1..(Len(s) - Len(sub) + 1) : MatchAt(s, sub, i)}
    IN  IF at = {} THEN 0 ELSE CHOOSE i \in at : \A j \in at : i <= j

(* strings.ReplaceAll: the non-overlapping occurrences of old, left to right *)
RECURSIVE ReplaceAll(_, _, _)
ReplaceAll(s, old, new) ==
    LET i == Index(s, old)
    IN  IF i = 0 THEN s
        ELSE SubSeq(s, 1, i - 1) \o new \o ReplaceAll(Drop(s, i + Len(old) - 1), old, new)

(* strings.Split: s cut at the non-overlapping occurrences of sep *)
RECURSIVE Split(_, _)
Split(s, sep) ==
    LET i == Index(s, sep)
    IN  IF i = 0 THEN <<s>>
        ELSE <<SubSeq(s, 1, i - 1)>> \o Split(Drop(s, i + Len(sep) - 1), sep)

RECURSIVE Join(_, _)
Join(parts, sep) ==
    IF parts = <<>> THEN <<>>
    ELSE IF Len(parts) = 1 THEN parts[1]
    ELSE parts[1] \o sep \o Join(Tail(parts), sep)

(***************************************************************************)
(* Key codec                                                               *)
(***************************************************************************)
dbKeySep == <<":", ":">>

EscapedSep == <<"\\", ":", "\\", ":">>

newDbKeyFromStr(str) ==
    LET parts == Split(str, dbKeySep)
    IN  [i \in 1..Len(parts) |-> ReplaceAll(parts[i], EscapedSep, dbKeySep)]

dbKeyString(k) ==
    Join([i \in 1..Len(k) |-> ReplaceAll(k[i], dbKeySep, EscapedSep)], dbKeySep)

(***************************************************************************)
(* Namespaces and attribute names of the key layout                        *)
(***************************************************************************)
N_collections == <<"c","o","l","l","e","c","t","i","o","n","s">>
N_collections_mine == <<"c","o","l","l","e","c","t","i","o","n","s","_","m","i","n","e">>
N_collection == <<"c","o","l","l","e","c","t","i","o","n">>
N_collection_item == <<"c","o","l","l","e","c","t","i","o","n","_","i","t","e","m">>
N_folders == <<"f","o","l","d","e","r","s">>
N_folder == <<"f","o","l","d","e","r">>
N_folder_item == <<"f","o","l","d","e","r","_","i","t","e","m">>
N_items == <<"i","t","e","m","s">>
N_item == <<"i","t","e","m">>
N_item_collection == <<"i","t","e","m","_","c","o","l","l","e","c","t","i","o","n">>
N_item_tag == <<"i","t","e","m","_","t","a","g">>
N_item_folder == <<"i","t","e","m","_","f","o","l","d","e","r">>
N_tags == <<"t","a","g","s">>
N_tag == <<"t","a","g">>
N_tag_item == <<"t","a","g","_","i","t","e","m">>
A_name == <<"n","a","m","e">>
A_description == <<"d","e","s","c","r","i","p","t","i","o","n">>
A_ismine == <<"i","s","m","i","n","e">>
A_count == <<"c","o","u","n","t">>
A_children == <<"c","h","i","l","d","r","e","n">>

(***************************************************************************)
(* resource.go: Folder and Tag helpers                                     *)
(***************************************************************************)
Slash == <<"/">>

Colon == <<":">>

ParentPath(path) ==
    LET parts == Split(path, Slash)
    IN  IF Len(parts) # 1 THEN Join(SubSeq(parts, 1, Len(parts) - 1), Slash) ELSE <<>>

Basename(path) ==
    LET parts == Split(path, Slash)
    IN  parts[Len(parts)]

NewTagFromStr(str) == Split(str, Colon)

TagString(t) == Join(t, Colon)

TagEquals(t, t2) == t = t2

(***************************************************************************)
(* The key/value engine.  A transaction is a pair of views of the store:   *)
(* w, what txn.Get sees (the snapshot with the transaction's own writes),  *)
(* and s, the committed snapshot it started from.                          *)
(***************************************************************************)
Has(t, k) == k \in DOMAIN t

Set(t, k, v) == [x \in (DOMAIN t) \cup {k} |-> IF x = k THEN v ELSE t[x]]

Delete(t, k) == [x \in (DOMAIN t) \ {k} |-> t[x]]

DeleteAll(t, ks) == [x \in (DOMAIN t) \ ks |-> t[x]]


(***************************************************************************)
(* Byte order of keys: badger iterates keys in lexicographic byte order.   *)
(***************************************************************************)
Code(c) ==
    CASE c = "/" -> 47 [] c = ":" -> 58 [] c = "\\" -> 92 [] c = "_" -> 95
      [] c = "a" -> 97 [] c = "b" -> 98 [] c = "c" -> 99 [] c = "d" -> 100
      [] c = "e" -> 101 [] c = "f" -> 102 [] c = "g" -> 103 [] c = "h" -> 104
      [] c = "i" -> 105 [] c = "l" -> 108 [] c = "m" -> 109 [] c = "n" -> 110
      [] c = "o" -> 111 [] c = "p" -> 112 [] c = "r" -> 114 [] c = "s" -> 115
      [] c = "t" -> 116 [] c = "u" -> 117 [] c = "x" -> 120 [] c = "y" -> 121
      [] c = "1" -> 49 [] c = "0" -> 48

RECURSIVE LexLess(_, _)
LexLess(s1, s2) ==
    IF s2 = <<>> THEN FALSE
    ELSE IF s1 = <<>> THEN TRUE
    ELSE IF s1[1] = s2[1] THEN LexLess(Tail(s1), Tail(s2))
    ELSE Code(s1[1]) < Code(s2[1])

RECURSIVE SortKeys(_)
SortKeys(ks) ==
    IF ks = {} THEN <<>>
    ELSE LET m == CHOOSE k \in ks : \A o \in ks \ {k} : LexLess(k, o)
         IN  <<m>> \o SortKeys(ks \ {m})

(* What an iterator opened inside a transaction ranges over.  Whether the   *)
(* iterator of a read-write transaction merges the transaction's pending    *)
(* writes is a property of the badger build; iterPending fixes it for a     *)
(* whole behaviour.                                                         *)
IterView(txn) == IF iterPending THEN txn.w ELSE txn.s

(* it.Seek(prefix); it.ValidForPrefix(prefix); it.Next() *)
PrefixKeys(t, prefix) == {k \in DOMAIN t : HasPrefix(k, prefix)}

TxnSet(txn, k, v) == [txn EXCEPT !.w = Set(txn.w, k, v)]

TxnDelete(txn, k) == [txn EXCEPT !.w = Delete(txn.w, k)]

dropPrefix(txn, prefix) ==
    [txn EXCEPT !.w = DeleteAll(txn.w, PrefixKeys(IterView(txn), dbKeyString(prefix)))]

Begin(d) == [w |-> d, s |-> d]

Ok(txn) == [t |-> txn, err |-> "nil"]

Fail(txn, e) == [t |-> txn, err |-> e]

(* if err != nil { return err }: r when r failed, else what F makes of the *)
(* transaction r left.                                                     *)
Then(r, F(_)) == IF r.err # "nil" THEN r ELSE F(r.t)

(* v := ...: F of a value that is used more than once. *)
With(v, F(_)) == F(v)

(***************************************************************************)
(* Existence guards                                                        *)
(***************************************************************************)
checkIPNS(d, ipns) ==
    IF ipns = <<>> THEN "panic"
    ELSE IF Has(d, dbKeyString(<<N_collections, ipns>>)) THEN "nil"
    ELSE "ErrIPNSNotFound"

checkCID(d, cid) ==
    IF cid = <<>> THEN "panic"
    ELSE IF Has(d, dbKeyString(<<N_items, cid>>)) THEN "nil"
    ELSE "ErrCIDNotFound"

(***************************************************************************)
(* Read operations (each a View transaction on the committed store d)      *)
(***************************************************************************)
ReadItem(d, cid) ==
    IF checkCID(d, cid) # "nil" THEN [err |-> checkCID(d, cid), ok |-> FALSE]
    ELSE IF ~Has(d, dbKeyString(<<N_item, cid, A_name>>))
         THEN [err |-> "ErrKeyNotFound", ok |-> FALSE]
    ELSE LET ks == SortKeys(PrefixKeys(d, dbKeyString(<<N_item_tag, cid>>)))
         IN  [err |-> "nil", ok |-> TRUE, CID |-> cid,
              Name |-> d[dbKeyString(<<N_item, cid, A_name>>)],
              Tags |-> [i \in 1..Len(ks) |->
                          LET kTag == newDbKeyFromStr(ks[i])
                          IN  NewTagFromStr(kTag[Len(kTag)])]]

ReadCollectionItems(d, ipns) ==
    LET ks == SortKeys(PrefixKeys(d, dbKeyString(<<N_collection_item, ipns>>)))
    IN  [i \in 1..Len(ks) |-> newDbKeyFromStr(ks[i])[3]]

ReadFolderItems(d, ipns, path) ==
    LET ks == SortKeys(PrefixKeys(d, dbKeyString(<<N_folder_item, ipns, path>>)))
    IN  [i \in 1..Len(ks) |-> newDbKeyFromStr(ks[i])[4]]

ReadFolderChildren(d, ipns, path) ==
    LET k == dbKeyString(<<N_folder, ipns, path, A_children>>)
    IN  IF Has(d, k) THEN d[k] ELSE <<>>

ReadTagItemCount(d, t) ==
    LET k == dbKeyString(<<N_tag, TagString(t), A_count>>)
    IN  IF Has(d, k) THEN d[k] ELSE 0

(* SearchTags that matches whole leading segments only. *)
SearchTagsWholeSegments(d, prefix) ==
    {NewTagFromStr(newDbKeyFromStr(k)[2]) :
        k \in {dbKeyString(<<N_tags, prefix>>)} \cap DOMAIN d}
    \cup {NewTagFromStr(newDbKeyFromStr(k)[2]) :
             k \in PrefixKeys(d, dbKeyString(<<N_tags, prefix \o Colon>>))}

SearchTags(d, prefix) ==
    {NewTagFromStr(newDbKeyFromStr(k)[2]) : k \in PrefixKeys(d, dbKeyString(<<N_tags, prefix>>))}

IsCollectionEmpty(d, ipns) ==
    PrefixKeys(d, dbKeyString(<<N_collection_item, ipns>>)) = {}

isFolderPathExistsInTxn(t, d, ipns, path) ==
    IF checkIPNS(d, ipns) # "nil" THEN [err |-> checkIPNS(d, ipns), exists |-> FALSE]
    ELSE [err |-> "nil", exists |-> Has(t, dbKeyString(<<N_folders, ipns, path>>))]

IsFolderPathExists(d, ipns, path) == isFolderPathExistsInTxn(d, d, ipns, path)

isItemInFolderInTxn(t, d, cid, ipns, path) ==
    IF checkCID(d, cid) # "nil" THEN [err |-> checkCID(d, cid), inFolder |-> FALSE]
    ELSE With(isFolderPathExistsInTxn(t, d, ipns, path), LAMBDA e :
             IF e.err # "nil" THEN [err |-> e.err, inFolder |-> FALSE]
             ELSE IF ~e.exists THEN [err |-> "ErrFolderNotExists", inFolder |-> FALSE]
             ELSE [err |-> "nil",
                   inFolder |-> Has(t, dbKeyString(<<N_item_folder, cid, ipns, path>>))])

IsItemInFolder(d, cid, ipns, path) == isItemInFolderInTxn(d, d, cid, ipns, path)

IsItemInCollection(d, cid, ipns) ==
    IF checkCID(d, cid) # "nil" THEN [err |-> checkCID(d, cid), exist |-> FALSE]
    ELSE IF checkIPNS(d, ipns) # "nil" THEN [err |-> checkIPNS(d, ipns), exist |-> FALSE]
    ELSE [err |-> "nil", exist |-> Has(d, dbKeyString(<<N_item_collection, cid, ipns>>))]


(***************************************************************************)
(* Tag index (inside a read-write transaction).  Every operation returns   *)
(* [t |-> the transaction, err |-> the error]; a transaction whose         *)
(* function returns an error, or panics, is discarded by db.Update.        *)
(***************************************************************************)
(* binary.BigEndian.PutUint32(cBytes, uint32(c)): c is never negative here, *)
(* and stays far below 2^32 (one count per item), so the four bytes hold c. *)
Uint32(c) == c

updateTagItemCount(txn, t, diff) ==
    IF t = <<>> \/ diff = 0 THEN Fail(txn, "panic")
    ELSE LET tagKey == dbKeyString(<<N_tag, TagString(t), A_count>>)
             found == Has(txn.w, tagKey)
             c == IF found THEN txn.w[tagKey] + diff ELSE 1
         IN  IF found /\ c < 0 THEN Fail(txn, "ErrNegativeTagItemCount")
             ELSE LET t1 == TxnSet(txn, tagKey, Uint32(c))
                  IN  IF c = 0
                      THEN Ok(dropPrefix(dropPrefix(t1, <<N_tags, TagString(t)>>),
                                         <<N_tag, TagString(t)>>))
                      ELSE Ok(t1)

addItemTagInTxn(txn, cid, t) ==
    IF cid = <<>> \/ t = <<>> THEN Fail(txn, "panic")
    ELSE LET itemTagKey == dbKeyString(<<N_item_tag, cid, TagString(t)>>)
             tagItemKey == dbKeyString(<<N_tag_item, TagString(t), cid>>)
             tagExist == Has(txn.w, itemTagKey)
             t1 == TxnSet(txn, itemTagKey, TagString(t))
         IN  IF Has(t1.w, tagItemKey) # tagExist THEN Fail(t1, "panic")
             ELSE LET t2 == TxnSet(t1, tagItemKey, cid)
                  IN  IF ~tagExist
                      THEN updateTagItemCount(
                               TxnSet(t2, dbKeyString(<<N_tags, TagString(t)>>), TagString(t)),
                               t, 1)
                      ELSE Ok(t2)

(* for _, t := range iOld.Tags { txn.Delete(tag_item); updateTagItemCount(-1) } *)
RECURSIVE delOldTags(_, _, _)
delOldTags(txn, cid, tags) ==
    IF tags = <<>> THEN Ok(txn)
    ELSE LET t1 == TxnDelete(txn, dbKeyString(<<N_tag_item, TagString(tags[1]), cid>>))
             r == updateTagItemCount(t1, tags[1], -1)
         IN  IF r.err # "nil" THEN r ELSE delOldTags(r.t, cid, Tail(tags))

(* for _, t := range i.Tags { addItemTagInTxn } *)
RECURSIVE setNewTags(_, _, _)
setNewTags(txn, cid, tags) ==
    IF tags = <<>> THEN Ok(txn)
    ELSE LET r == addItemTagInTxn(txn, cid, tags[1])
         IN  IF r.err # "nil" THEN r ELSE setNewTags(r.t, cid, Tail(tags))

(***************************************************************************)
(* Item store.  The update transaction of CreateOrUpdateItem takes iOld,   *)
(* the result of the ReadItem that ran before it in its own transaction.   *)
(***************************************************************************)
createOrUpdateItemTxn(d, cid, name, tags, iOld) ==
    LET t0 == TxnSet(TxnSet(Begin(d), dbKeyString(<<N_items, cid>>), cid),
                     dbKeyString(<<N_item, cid, A_name>>), name)
        r1 == IF iOld.ok
              THEN delOldTags(dropPrefix(t0, <<N_item_tag, cid>>), cid, iOld.Tags)
              ELSE Ok(t0)
    IN  IF r1.err # "nil" THEN r1 ELSE setNewTags(r1.t, cid, tags)

CreateOrUpdateItem(d, cid, name, tags) ==
    IF cid = <<>> \/ name = <<>> THEN Fail(Begin(d), "panic")
    ELSE createOrUpdateItemTxn(d, cid, name, tags, ReadItem(d, cid))

(* Keys of namespace ns whose decoded segment at index idx is cid; the code *)
(* deletes the re-encoded key.                                              *)
ScanDelete(txn, ns, idx, cid) ==
    LET ks == PrefixKeys(IterView(txn), dbKeyString(<<ns>>))
    IN  IF \E k \in ks : Len(newDbKeyFromStr(k)) < idx THEN Fail(txn, "panic")
        ELSE Ok([txn EXCEPT !.w = DeleteAll(txn.w,
                   {dbKeyString(newDbKeyFromStr(k)) :
                        k \in {x \in ks : newDbKeyFromStr(x)[idx] = cid}})])

DelItem(d, cid) ==
    LET item == ReadItem(d, cid)
    IN  IF ~item.ok THEN Fail(Begin(d), item.err)
        ELSE LET r1 == delOldTags(Begin(d), cid, item.Tags)
             IN  IF r1.err # "nil" THEN r1
                 ELSE LET r2 == ScanDelete(r1.t, N_collection_item, 3, cid)
                      IN  IF r2.err # "nil" THEN r2
                          ELSE LET r3 == ScanDelete(r2.t, N_folder_item, 4, cid)
                               IN  IF r3.err # "nil" THEN r3
                                   ELSE Ok(dropPrefix(dropPrefix(dropPrefix(dropPrefix(dropPrefix(
                                            r3.t, <<N_items, cid>>), <<N_item, cid>>),
                                            <<N_item_collection, cid>>), <<N_item_tag, cid>>),
                                            <<N_item_folder, cid>>))

AddItemTag(d, cid, t) ==
    IF t = <<>> \/ cid = <<>> THEN Fail(Begin(d), "panic")
    ELSE IF checkCID(d, cid) # "nil" THEN Fail(Begin(d), checkCID(d, cid))
    ELSE addItemTagInTxn(Begin(d), cid, t)

(* RemoveItemTag that leaves the tag's count as it is. *)
RemoveItemTagKeepingCount(d, cid, t) ==
    IF t = <<>> \/ cid = <<>> THEN Fail(Begin(d), "panic")
    ELSE IF checkCID(d, cid) # "nil" THEN Fail(Begin(d), checkCID(d, cid))
    ELSE Ok(TxnDelete(TxnDelete(Begin(d), dbKeyString(<<N_item_tag, cid, TagString(t)>>)),
                      dbKeyString(<<N_tag_item, TagString(t), cid>>)))

RemoveItemTag(d, cid, t) ==
    IF t = <<>> \/ cid = <<>> THEN Fail(Begin(d), "panic")
    ELSE IF checkCID(d, cid) # "nil" THEN Fail(Begin(d), checkCID(d, cid))
    ELSE updateTagItemCount(
             TxnDelete(TxnDelete(Begin(d), dbKeyString(<<N_item_tag, cid, TagString(t)>>)),
                       dbKeyString(<<N_tag_item, TagString(t), cid>>)),
             t, -1)

HasTag(d, cid, t) ==
    LET item == ReadItem(d, cid)
    IN  item.ok /\ \E i \in 1..Len(item.Tags) : TagEquals(item.Tags[i], t)


(***************************************************************************)
(* Folder tree                                                             *)
(***************************************************************************)
RECURSIVE createOrUpdateFolderInTxn(_, _, _)

assertParentInTxn(txn, ipns, path) ==
    IF ParentPath(path) = <<>>
    THEN With(isFolderPathExistsInTxn(txn.w, txn.s, ipns, <<>>), LAMBDA e :
             IF e.err # "nil" THEN Fail(txn, e.err)
             ELSE IF ~e.exists THEN createOrUpdateFolderInTxn(txn, ipns, <<>>)
             ELSE Ok(txn))
    ELSE With(isFolderPathExistsInTxn(txn.w, txn.s, ipns, ParentPath(path)), LAMBDA e :
             IF e.err # "nil" THEN Fail(txn, e.err)
             ELSE IF ~e.exists THEN Fail(txn, "ErrParentFolderNotExists")
             ELSE Ok(txn))

createOrUpdateFolderInTxn(txn, ipns, path) ==
    With(TxnSet(txn, dbKeyString(<<N_folders, ipns, path>>), path), LAMBDA t1 :
        IF path = <<>> /\ ParentPath(path) = <<>> THEN Ok(t1)
        ELSE Then(assertParentInTxn(t1, ipns, path), LAMBDA t2 :
                 Ok(TxnSet(t2, dbKeyString(<<N_folder, ipns, ParentPath(path), A_children>>),
                           Append(ReadFolderChildren(t2.w, ipns, ParentPath(path)), path)))))

(* CreateOrUpdateFolder that does not assert the parent. *)
CreateOrUpdateFolderAnyParent(d, ipns, path) ==
    IF ipns = <<>> THEN Fail(Begin(d), "panic")
    ELSE IF checkIPNS(d, ipns) # "nil" THEN Fail(Begin(d), checkIPNS(d, ipns))
    ELSE With(TxnSet(Begin(d), dbKeyString(<<N_folders, ipns, path>>), path), LAMBDA t1 :
             IF path = <<>> /\ ParentPath(path) = <<>> THEN Ok(t1)
             ELSE Ok(TxnSet(t1, dbKeyString(<<N_folder, ipns, ParentPath(path), A_children>>),
                            Append(ReadFolderChildren(t1.w, ipns, ParentPath(path)), path))))

CreateOrUpdateFolder(d, ipns, path) ==
    IF ipns = <<>> THEN Fail(Begin(d), "panic")
    ELSE IF checkIPNS(d, ipns) # "nil" THEN Fail(Begin(d), checkIPNS(d, ipns))
    ELSE createOrUpdateFolderInTxn(Begin(d), ipns, path)

ReadFolder(d, ipns, path) ==
    IF ipns = <<>> THEN "panic"
    ELSE LET e == IsFolderPathExists(d, ipns, path)
         IN  IF e.err # "nil" THEN e.err
             ELSE IF ~e.exists THEN "ErrFolderNotExists" ELSE "nil"

(* AddItemToFolder that makes the item a member of the collection too. *)
AddItemToFolderJoiningCollection(d, cid, ipns, path) ==
    IF checkCID(d, cid) # "nil" THEN Fail(Begin(d), checkCID(d, cid))
    ELSE LET e == IsFolderPathExists(d, ipns, path)
         IN  IF e.err # "nil" THEN Fail(Begin(d), e.err)
             ELSE IF ~e.exists THEN Fail(Begin(d), "ErrFolderNotExists")
             ELSE Ok(TxnSet(TxnSet(TxnSet(TxnSet(Begin(d),
                                   dbKeyString(<<N_item_folder, cid, ipns, path>>), path),
                            dbKeyString(<<N_folder_item, ipns, path, cid>>), cid),
                            dbKeyString(<<N_collection_item, ipns, cid>>), cid),
                            dbKeyString(<<N_item_collection, cid, ipns>>), ipns))

(* The Update transaction of AddItemToFolder: two writes, no read. *)
addItemToFolderTxn(d, cid, ipns, path) ==
    Ok(TxnSet(TxnSet(Begin(d), dbKeyString(<<N_item_folder, cid, ipns, path>>), path),
              dbKeyString(<<N_folder_item, ipns, path, cid>>), cid))

AddItemToFolder(d, cid, ipns, path) ==
    IF checkCID(d, cid) # "nil" THEN Fail(Begin(d), checkCID(d, cid))
    ELSE LET e == IsFolderPathExists(d, ipns, path)
         IN  IF e.err # "nil" THEN Fail(Begin(d), e.err)
             ELSE IF ~e.exists THEN Fail(Begin(d), "ErrFolderNotExists")
             ELSE addItemToFolderTxn(d, cid, ipns, path)

RemoveItemFromFolder(d, cid, ipns, path) ==
    IF checkCID(d, cid) # "nil" THEN Fail(Begin(d), checkCID(d, cid))
    ELSE IF ~Has(d, dbKeyString(<<N_item_folder, cid, ipns, path>>))
         THEN Fail(Begin(d), "ErrItemNotInFolder")
    ELSE Ok(TxnDelete(TxnDelete(Begin(d), dbKeyString(<<N_item_folder, cid, ipns, path>>)),
                      dbKeyString(<<N_folder_item, ipns, path, cid>>)))

(***************************************************************************)
(* Collection-item membership                                              *)
(***************************************************************************)
removeItemFromCollectionInTxn(txn, cid, ipns) ==
    With(PrefixKeys(IterView(txn), dbKeyString(<<N_item_folder, cid, ipns>>)), LAMBDA ks :
        IF \E k \in ks : Len(newDbKeyFromStr(k)) < 4 THEN Fail(txn, "panic")
        ELSE With(dropPrefix(txn, <<N_item_folder, cid, ipns>>), LAMBDA t1 :
             Ok(TxnDelete(TxnDelete(
                    [t1 EXCEPT !.w = DeleteAll(t1.w,
                        {dbKeyString(<<N_folder_item, ipns, newDbKeyFromStr(k)[4], cid>>) :
                             k \in ks})],
                    dbKeyString(<<N_collection_item, ipns, cid>>)),
                    dbKeyString(<<N_item_collection, cid, ipns>>)))))

RemoveItemFromCollection(d, cid, ipns) ==
    IF checkCID(d, cid) # "nil" THEN Fail(Begin(d), checkCID(d, cid))
    ELSE IF checkIPNS(d, ipns) # "nil" THEN Fail(Begin(d), checkIPNS(d, ipns))
    ELSE removeItemFromCollectionInTxn(Begin(d), cid, ipns)

(* The first transaction of AddItemToCollection; the second is              *)
(* AddItemToFolder(cid, root).                                              *)
addItemToCollectionTxn(d, cid, ipns) ==
    LET e == IsItemInCollection(d, cid, ipns)
    IN  IF e.err # "nil" THEN Fail(Begin(d), e.err)
        ELSE IF e.exist THEN Fail(Begin(d), "ErrItemInCollection")
        ELSE Ok(TxnSet(TxnSet(Begin(d), dbKeyString(<<N_collection_item, ipns, cid>>), cid),
                       dbKeyString(<<N_item_collection, cid, ipns>>), ipns))

(***************************************************************************)
(* Collection store                                                        *)
(***************************************************************************)
(* CreateOrUpdateCollection that lists the root folder among the root's own *)
(* children, as createOrUpdateFolderInTxn does for every other folder.      *)
CreateOrUpdateCollectionListingRoot(d, ipns, name, description, isMine) ==
    IF name = <<>> \/ ipns = <<>> THEN Fail(Begin(d), "panic")
    ELSE With(TxnSet(TxnSet(TxnSet(Begin(d),
                  dbKeyString(<<N_collections, ipns>>), ipns),
                  dbKeyString(<<N_collection, ipns, A_name>>), name),
                  dbKeyString(<<N_collection, ipns, A_description>>), description), LAMBDA t3 :
         Then(createOrUpdateFolderInTxn(
                  TxnSet(IF isMine
                         THEN TxnSet(t3, dbKeyString(<<N_collections_mine, ipns>>), ipns)
                         ELSE t3,
                         dbKeyString(<<N_collection, ipns, A_ismine>>),
                         IF isMine THEN <<"1">> ELSE <<"0">>),
                  ipns, <<>>), LAMBDA t :
             Ok(TxnSet(t, dbKeyString(<<N_folder, ipns, <<>>, A_children>>),
                       Append(ReadFolderChildren(t.w, ipns, <<>>), <<>>)))))

CreateOrUpdateCollection(d, ipns, name, description, isMine) ==
    IF name = <<>> \/ ipns = <<>> THEN Fail(Begin(d), "panic")
    ELSE LET p == <<N_collection, ipns>>
             t1 == TxnSet(Begin(d), dbKeyString(<<N_collections, ipns>>), ipns)
             t2 == TxnSet(t1, dbKeyString(Append(p, A_name)), name)
             t3 == TxnSet(t2, dbKeyString(Append(p, A_description)), description)
             t4 == IF isMine
                   THEN TxnSet(t3, dbKeyString(<<N_collections_mine, ipns>>), ipns)
                   ELSE t3
             t5 == TxnSet(t4, dbKeyString(Append(p, A_ismine)),
                          IF isMine THEN <<"1">> ELSE <<"0">>)
         IN  createOrUpdateFolderInTxn(t5, ipns, <<>>)

(* The capacity of the slice append makes for n bytes from a nil slice: the *)
(* allocator's size class (8, 16, 32, 48, ... bytes with go 1.12).          *)
AppendCap(n) ==
    IF n = 0 THEN 0 ELSE IF n <= 8 THEN 8 ELSE IF n <= 16 THEN 16 ELSE 16 * ((n + 15) \div 16)

(* item.ValueCopy(dst) is append(dst[:0], val...): when val fits in dst's   *)
(* capacity it is written over dst's bytes.  What dst, a slice ValueCopy(nil) *)
(* returned, reads afterwards.                                              *)
ValueCopyOver(dst, val) ==
    IF Len(val) <= AppendCap(Len(dst))
    THEN [i \in 1..Len(dst) |-> IF i <= Len(val) THEN val[i] ELSE dst[i]]
    ELSE dst

(* n is read with ValueCopy(nil), the description with ValueCopy(n), and   *)
(* the name is taken from n after that.                                    *)
ReadCollection(d, ipns) ==
    LET p == <<N_collection, ipns>>
    IN  IF checkIPNS(d, ipns) # "nil" THEN [err |-> checkIPNS(d, ipns)]
        ELSE IF ~Has(d, dbKeyString(Append(p, A_name)))
                \/ ~Has(d, dbKeyString(Append(p, A_description)))
                \/ ~Has(d, dbKeyString(Append(p, A_ismine)))
             THEN [err |-> "ErrKeyNotFound"]
        ELSE [err |-> "nil", IPNSAddress |-> ipns,
              Name |-> ValueCopyOver(d[dbKeyString(Append(p, A_name))],
                                     d[dbKeyString(Append(p, A_description))]),
              Description |-> d[dbKeyString(Append(p, A_description))],
              IsMine |-> d[dbKeyString(Append(p, A_ismine))] = <<"1">>]

RECURSIVE delItemRefs(_, _, _)
delItemRefs(txn, items, ipns) ==
    IF items = <<>> THEN txn
    ELSE delItemRefs(
             TxnDelete(dropPrefix(txn, <<N_item_folder, items[1], ipns>>),
                       dbKeyString(<<N_item_collection, items[1], ipns>>)),
             Tail(items), ipns)

(* DelCollection that also drops the name of every item. *)
DelCollectionDroppingItems(d, ipns) ==
    IF checkIPNS(d, ipns) # "nil" THEN Fail(Begin(d), checkIPNS(d, ipns))
    ELSE LET items == ReadCollectionItems(d, ipns)
             t1 == TxnDelete(Begin(d), dbKeyString(<<N_collections, ipns>>))
             t2 == dropPrefix(t1, <<N_collection, ipns>>)
             t3 == dropPrefix(t2, <<N_collection_item, ipns>>)
             t4 == dropPrefix(t3, <<N_folders, ipns>>)
             t5 == dropPrefix(t4, <<N_folder, ipns>>)
         IN  Ok(dropPrefix(delItemRefs(t5, items, ipns), <<N_item>>))

(* DelCollection that leaves the collections::A entry in place. *)
DelCollectionKeepingEntry(d, ipns) ==
    IF checkIPNS(d, ipns) # "nil" THEN Fail(Begin(d), checkIPNS(d, ipns))
    ELSE LET items == ReadCollectionItems(d, ipns)
             t2 == dropPrefix(Begin(d), <<N_collection, ipns>>)
             t3 == dropPrefix(t2, <<N_collection_item, ipns>>)
             t4 == dropPrefix(t3, <<N_folders, ipns>>)
             t5 == dropPrefix(t4, <<N_folder, ipns>>)
         IN  Ok(delItemRefs(t5, items, ipns))

DelCollection(d, ipns) ==
    IF checkIPNS(d, ipns) # "nil" THEN Fail(Begin(d), checkIPNS(d, ipns))
    ELSE LET items == ReadCollectionItems(d, ipns)
             t1 == TxnDelete(Begin(d), dbKeyString(<<N_collections, ipns>>))
             t2 == dropPrefix(t1, <<N_collection, ipns>>)
             t3 == dropPrefix(t2, <<N_collection_item, ipns>>)
             t4 == dropPrefix(t3, <<N_folders, ipns>>)
             t5 == dropPrefix(t4, <<N_folder, ipns>>)
         IN  Ok(delItemRefs(t5, items, ipns))


(***************************************************************************)
(* Folder deletion, move and copy                                          *)
(***************************************************************************)
(* One round of the loop over the folder's items in delFolderInTxn. *)
delFolderItem(txn, cid, ipns, path) ==
    With(TxnDelete(txn, dbKeyString(<<N_item_folder, cid, ipns, path>>)), LAMBDA t1 :
        IF PrefixKeys(IterView(t1), dbKeyString(<<N_item_folder, cid, ipns>>)) = {}
        THEN removeItemFromCollectionInTxn(t1, cid, ipns)
        ELSE Ok(t1))

RECURSIVE delFolderItems(_, _, _, _)
delFolderItems(txn, items, ipns, path) ==
    IF items = <<>> THEN Ok(txn)
    ELSE Then(delFolderItem(txn, items[1], ipns, path), LAMBDA t1 :
             delFolderItems(t1, Tail(items), ipns, path))

RECURSIVE delFolderInTxn(_, _, _)
RECURSIVE delFolderChildren(_, _, _)
delFolderChildren(txn, children, ipns) ==
    IF children = <<>> THEN Ok(txn)
    ELSE Then(delFolderInTxn(txn, ipns, children[1]), LAMBDA t1 :
             delFolderChildren(t1, Tail(children), ipns))

delFolderInTxn(txn, ipns, path) ==
    With(IsFolderPathExists(txn.s, ipns, path), LAMBDA e :
        IF e.err # "nil" THEN Fail(txn, e.err)
        ELSE IF ~e.exists THEN Ok(txn)
        ELSE Then(delFolderChildren(txn, ReadFolderChildren(txn.s, ipns, path), ipns),
                  LAMBDA t1 :
             Then(delFolderItems(t1, ReadFolderItems(txn.s, ipns, path), ipns, path),
                  LAMBDA t2 :
             Ok(TxnDelete(dropPrefix(dropPrefix(t2, <<N_folder_item, ipns, path>>),
                                     <<N_folder, ipns, path>>),
                          dbKeyString(<<N_folders, ipns, path>>))))))

(* Remove folder from children: the entries different from path, in order. *)
RemoveChild(pChildren, path) ==
    SelectSeq(pChildren, LAMBDA child : child # path)

(* DelFolder that deletes the root folder like any other. *)
DelFolderAnyPath(d, ipns, path) ==
    With(IsFolderPathExists(d, ipns, path), LAMBDA e :
         IF e.err # "nil" THEN Fail(Begin(d), e.err)
         ELSE IF ~e.exists THEN Fail(Begin(d), "ErrFolderNotExists")
         ELSE Then(delFolderInTxn(Begin(d), ipns, path), LAMBDA t1 :
              With(dbKeyString(<<N_folder, ipns, ParentPath(path), A_children>>), LAMBDA pck :
              IF Has(t1.w, pck)
              THEN Ok(TxnSet(t1, pck, RemoveChild(t1.w[pck], path)))
              ELSE Ok(t1))))

DelFolder(d, ipns, path) ==
    IF path = <<>> THEN Fail(Begin(d), "ErrCantDelRootFolder")
    ELSE With(IsFolderPathExists(d, ipns, path), LAMBDA e :
         IF e.err # "nil" THEN Fail(Begin(d), e.err)
         ELSE IF ~e.exists THEN Fail(Begin(d), "ErrFolderNotExists")
         ELSE Then(delFolderInTxn(Begin(d), ipns, path), LAMBDA t1 :
              With(dbKeyString(<<N_folder, ipns, ParentPath(path), A_children>>), LAMBDA pck :
              IF Has(t1.w, pck)
              THEN Ok(TxnSet(t1, pck, RemoveChild(t1.w[pck], path)))
              ELSE Ok(t1))))

moveOrCopyItemInTxn(txn, cid, fromA, fromP, toA, toP, copy) ==
    IF checkCID(txn.s, cid) # "nil" THEN Fail(txn, checkCID(txn.s, cid))
    ELSE With(isItemInFolderInTxn(txn.w, txn.s, cid, fromA, fromP), LAMBDA e1 :
    IF e1.err # "nil" THEN Fail(txn, e1.err)
    ELSE IF ~e1.inFolder THEN Ok(txn)
    ELSE With(isFolderPathExistsInTxn(txn.w, txn.s, toA, toP), LAMBDA e2 :
    IF e2.err # "nil" THEN Fail(txn, e2.err)
    ELSE IF ~e2.exists THEN Ok(txn)
    ELSE With(TxnSet(txn, dbKeyString(<<N_folder_item, toA, toP, cid>>), cid), LAMBDA t1 :
         With(IF ~copy
              THEN TxnDelete(t1, dbKeyString(<<N_folder_item, fromA, fromP, cid>>))
              ELSE t1, LAMBDA t2 :
         With(TxnSet(t2, dbKeyString(<<N_item_folder, cid, toA, toP>>), toP), LAMBDA t3 :
         With(IF ~copy
              THEN TxnDelete(t3, dbKeyString(<<N_item_folder, cid, fromA, fromP, cid>>))
              ELSE t3, LAMBDA t4 :
         IF fromA = toA THEN Ok(t4)
         ELSE With(TxnSet(TxnSet(t4, dbKeyString(<<N_collection_item, toA, cid>>), cid),
                          dbKeyString(<<N_item_collection, cid, toA>>), toA), LAMBDA t5 :
              IF ~copy
              THEN Ok(TxnDelete(TxnDelete(t5, dbKeyString(<<N_collection_item, fromA, cid>>)),
                                dbKeyString(<<N_item_collection, cid, fromA>>)))
              ELSE Ok(t5))))))))

(* MoveOrCopyItem returns nil whatever its transaction returned. *)
MoveOrCopyItem(d, cid, fromA, fromP, toA, toP, copy) ==
    IF checkCID(d, cid) # "nil" THEN Fail(Begin(d), checkCID(d, cid))
    ELSE With(IsItemInFolder(d, cid, fromA, fromP), LAMBDA e1 :
    IF e1.err # "nil" THEN Fail(Begin(d), e1.err)
    ELSE IF ~e1.inFolder THEN Fail(Begin(d), "ErrItemNotInFolder")
    ELSE With(IsFolderPathExists(d, toA, toP), LAMBDA e2 :
    IF e2.err # "nil" THEN Fail(Begin(d), e2.err)
    ELSE IF ~e2.exists THEN Fail(Begin(d), "ErrFolderNotExists")
    ELSE With(moveOrCopyItemInTxn(Begin(d), cid, fromA, fromP, toA, toP, copy), LAMBDA r :
         IF r.err # "nil" THEN Ok(Begin(d)) ELSE r)))

RECURSIVE copyFolderItems(_, _, _, _, _, _)
copyFolderItems(txn, cids, fromA, fromP, toA, toP) ==
    IF cids = <<>> THEN Ok(txn)
    ELSE Then(moveOrCopyItemInTxn(txn, cids[1], fromA, fromP, toA, toP, TRUE), LAMBDA t1 :
             copyFolderItems(t1, Tail(cids), fromA, fromP, toA, toP))

RECURSIVE copyFolderInTxn(_, _, _, _, _)
RECURSIVE copyFolderChildren(_, _, _, _, _)
copyFolderChildren(txn, children, fromA, toA, toP) ==
    IF children = <<>> THEN Ok(txn)
    ELSE Then(copyFolderInTxn(txn, fromA, children[1], toA,
                              toP \o Slash \o Basename(children[1])), LAMBDA t1 :
             copyFolderChildren(t1, Tail(children), fromA, toA, toP))

copyFolderInTxn(txn, fromA, fromP, toA, toP) ==
    With(IsFolderPathExists(txn.s, toA, toP), LAMBDA eTo :
    IF eTo.err # "nil" THEN Fail(txn, eTo.err)
    ELSE Then(IF ~eTo.exists THEN createOrUpdateFolderInTxn(txn, toA, toP) ELSE Ok(txn),
              LAMBDA t1 :
         With(IsFolderPathExists(txn.s, fromA, fromP), LAMBDA eFrom :
         IF eFrom.err # "nil" THEN Fail(t1, eFrom.err)
         ELSE IF ~eFrom.exists THEN Fail(t1, "ErrFolderNotExists")
         ELSE Then(copyFolderItems(t1, ReadFolderItems(txn.s, fromA, fromP),
                                   fromA, fromP, toA, toP), LAMBDA t2 :
              copyFolderChildren(t2, ReadFolderChildren(txn.s, fromA, fromP),
                                 fromA, toA, toP)))))

(* The first transaction of MoveOrCopyFolder creating the destination     *)
(* folder and copying nothing into it.                                     *)
moveOrCopyFolderTxnFolderOnly(d, fromA, fromP, toA, toP) ==
    With(IsFolderPathExists(d, fromA, fromP), LAMBDA e :
        IF e.err # "nil" THEN Fail(Begin(d), e.err)
        ELSE IF ~e.exists THEN Fail(Begin(d), "ErrFolderNotExists")
        ELSE IF checkIPNS(d, toA) # "nil" THEN Fail(Begin(d), checkIPNS(d, toA))
        ELSE IF IsFolderPathExists(d, toA, toP).exists THEN Ok(Begin(d))
        ELSE createOrUpdateFolderInTxn(Begin(d), toA, toP))

(* The first transaction of MoveOrCopyFolder, with the checks before it;    *)
(* when copy is false the second is DelFolder(folderFrom).                  *)
moveOrCopyFolderTxn(d, fromA, fromP, toA, toP) ==
    With(IsFolderPathExists(d, fromA, fromP), LAMBDA e :
        IF e.err # "nil" THEN Fail(Begin(d), e.err)
        ELSE IF ~e.exists THEN Fail(Begin(d), "ErrFolderNotExists")
        ELSE IF checkIPNS(d, toA) # "nil" THEN Fail(Begin(d), checkIPNS(d, toA))
        ELSE copyFolderInTxn(Begin(d), fromA, fromP, toA, toP))

(***************************************************************************)
(* Whole public operations as run with no other operation in between:      *)
(* [db |-> the committed store afterwards, err |-> the error returned].    *)
(***************************************************************************)
Commit(d, r) == [db |-> IF r.err = "nil" THEN r.t.w ELSE d, err |-> r.err]

AddItemToCollection(d, cid, ipns) ==
    With(Commit(d, addItemToCollectionTxn(d, cid, ipns)), LAMBDA r1 :
        IF r1.err # "nil" THEN r1
        ELSE Commit(r1.db, AddItemToFolder(r1.db, cid, ipns, <<>>)))

MoveOrCopyFolder(d, fromA, fromP, toA, toP, copy) ==
    With(Commit(d, moveOrCopyFolderTxn(d, fromA, fromP, toA, toP)), LAMBDA r1 :
        IF r1.err # "nil" \/ copy THEN r1
        ELSE Commit(r1.db, DelFolder(r1.db, fromA, fromP)))


(***************************************************************************)
(* Bounds and the identifiers operations are called with.  Addresses,      *)
(* content ids, tags and paths are opaque strings to the store; each set   *)
(* holds a pair in which one string is a byte prefix of the other.         *)
(***************************************************************************)
MaxChildren == 2

MaxKeyLen == 28

MaxDepth == 2

Addrs == {<<"c">>, <<"c", "d">>}

CIDs == {<<"x">>, <<"x", "y">>}

Tags == {<< <<"a">> >>, << <<"a">>, <<"b">> >>}

Paths == {<<>>, <<"a">>, <<"a", "/", "b">>, <<"a", "b">>}

Names == {<<"n">>}

Descriptions == {<<"d">>}

(* The tag lists an item is saved with: every subset of TS, in byte order. *)
TagListsOf(TS) ==
    {LET ks == SortKeys({TagString(t) : t \in S})
     IN  [i \in 1..Len(ks) |-> NewTagFromStr(ks[i])] : S \in SUBSET TS}

TagLists == TagListsOf(Tags)

ChildrenKeyPrefix == N_folder \o dbKeySep

FoldersKeyPrefix == N_folders \o dbKeySep

(* The stores explored: keys of at most MaxKeyLen bytes, children lists of *)
(* at most MaxChildren entries, folders at most MaxDepth levels deep.      *)
Bounded(d) ==
    \A k \in DOMAIN d :
        /\ Len(k) <= MaxKeyLen
        /\ HasPrefix(k, ChildrenKeyPrefix) => Len(d[k]) <= MaxChildren
        /\ HasPrefix(k, FoldersKeyPrefix) => Len(Split(d[k], Slash)) <= MaxDepth

(***************************************************************************)
(* State.  db is the committed store; last records the public operation    *)
(* that returned last; flight is the operation that has committed its      *)
(* first transaction, or done its first read, and not yet its second.      *)
(***************************************************************************)
NoArgs == [cid |-> <<>>, ipns |-> <<>>, path |-> <<>>, tag |-> <<>>,
           ipns2 |-> <<>>, path2 |-> <<>>, copy |-> FALSE,
           name |-> <<>>, desc |-> <<>>]

(* The nil *Item of a call that has read nothing. *)
NoItem == [err |-> "none", ok |-> FALSE]

(* old is iOld, the item CreateOrUpdateItem read before its transaction. *)
Idle == [op |-> "none", args |-> NoArgs, old |-> NoItem]

(* codec is the value a key codec function was last applied to or returned: *)
(* have tells whether val is a dbKey or a key string, from is the value the *)
(* trips conversions started from.  The store never reads it.               *)
NoCodec == [have |-> "none", val |-> <<>>, from |-> <<>>, trips |-> 0]

Init ==
    /\ db = <<>>
    /\ last = [op |-> "none", err |-> "nil", args |-> NoArgs]
    /\ flight = Idle
    /\ iterPending \in BOOLEAN
    /\ codec = NoCodec

(* A call that returned: it committed r.db and returned r.err.  A call that *)
(* fails without committing anything leaves the state as it is.             *)
Returns(op, args, r) ==
    /\ r.err = "nil" \/ r.db # db
    /\ Bounded(r.db)
    /\ db' = r.db
    /\ last' = [op |-> op, err |-> r.err, args |-> args]
    /\ UNCHANGED <<flight, iterPending, codec>>

(* args.copy holds the IsMine flag of the collection. *)
(* A call that returned, whatever it returned: a failed call is a step too, *)
(* and leaves in last what it was called with and its error.               *)
Called(op, args, r) ==
    /\ Bounded(r.db)
    /\ db' = r.db
    /\ last' = [op |-> op, err |-> r.err, args |-> args]
    /\ UNCHANGED <<flight, iterPending, codec>>

ActCreateOrUpdateFolderCall(AS, PS) ==
    \E a \in AS, p \in PS :
        Called("CreateOrUpdateFolder", [NoArgs EXCEPT !.ipns = a, !.path = p],
               Commit(db, CreateOrUpdateFolder(db, a, p)))

ActDelFolderCall(AS, PS) ==
    \E a \in AS, p \in PS :
        Called("DelFolder", [NoArgs EXCEPT !.ipns = a, !.path = p],
               Commit(db, DelFolder(db, a, p)))

ActCreateOrUpdateCollectionAs(AS, NS, DS) ==
    \E a \in AS, n \in NS, ds \in DS, m \in BOOLEAN :
        Returns("CreateOrUpdateCollection",
                [NoArgs EXCEPT !.ipns = a, !.copy = m, !.name = n, !.desc = ds],
                Commit(db, CreateOrUpdateCollection(db, a, n, ds, m)))

ActCreateOrUpdateCollection(AS) == ActCreateOrUpdateCollectionAs(AS, Names, Descriptions)

ActDelCollection(AS) ==
    \E a \in AS :
        Returns("DelCollection", [NoArgs EXCEPT !.ipns = a], Commit(db, DelCollection(db, a)))

ActCreateOrUpdateItem(CS, TL) ==
    \E c \in CS, n \in Names, ts \in TL :
        Returns("CreateOrUpdateItem", [NoArgs EXCEPT !.cid = c, !.tag = ts, !.name = n],
                Commit(db, CreateOrUpdateItem(db, c, n, ts)))

ActDelItem(CS) ==
    \E c \in CS :
        Returns("DelItem", [NoArgs EXCEPT !.cid = c], Commit(db, DelItem(db, c)))

ActAddItemTag(CS, TS) ==
    \E c \in CS, t \in TS :
        Returns("AddItemTag", [NoArgs EXCEPT !.cid = c, !.tag = t],
                Commit(db, AddItemTag(db, c, t)))

ActRemoveItemTag(CS, TS) ==
    \E c \in CS, t \in TS :
        Returns("RemoveItemTag", [NoArgs EXCEPT !.cid = c, !.tag = t],
                Commit(db, RemoveItemTag(db, c, t)))

ActAddItemToCollection(CS, AS) ==
    \E c \in CS, a \in AS :
        Returns("AddItemToCollection", [NoArgs EXCEPT !.cid = c, !.ipns = a],
                AddItemToCollection(db, c, a))

ActRemoveItemFromCollection(CS, AS) ==
    \E c \in CS, a \in AS :
        Returns("RemoveItemFromCollection", [NoArgs EXCEPT !.cid = c, !.ipns = a],
                Commit(db, RemoveItemFromCollection(db, c, a)))

ActCreateOrUpdateFolder(AS, PS) ==
    \E a \in AS, p \in PS :
        Returns("CreateOrUpdateFolder", [NoArgs EXCEPT !.ipns = a, !.path = p],
                Commit(db, CreateOrUpdateFolder(db, a, p)))

ActAddItemToFolder(CS, AS, PS) ==
    \E c \in CS, a \in AS, p \in PS :
        Returns("AddItemToFolder", [NoArgs EXCEPT !.cid = c, !.ipns = a, !.path = p],
                Commit(db, AddItemToFolder(db, c, a, p)))

ActRemoveItemFromFolder(CS, AS, PS) ==
    \E c \in CS, a \in AS, p \in PS :
        Returns("RemoveItemFromFolder", [NoArgs EXCEPT !.cid = c, !.ipns = a, !.path = p],
                Commit(db, RemoveItemFromFolder(db, c, a, p)))

ActDelFolder(AS, PS) ==
    \E a \in AS, p \in PS :
        Returns("DelFolder", [NoArgs EXCEPT !.ipns = a, !.path = p],
                Commit(db, DelFolder(db, a, p)))

(* The calls that fail on their first check (the item is not in folderFrom) *)
(* are left out before the destination is chosen.                           *)
ActMoveOrCopyItem(CS, AS, PS) ==
    \E c \in CS, a \in AS, p \in PS :
        /\ Has(db, dbKeyString(<<N_item_folder, c, a, p>>))
        /\ \E a2 \in AS, p2 \in PS, cp \in BOOLEAN :
               Returns("MoveOrCopyItem",
                       [NoArgs EXCEPT !.cid = c, !.ipns = a, !.path = p,
                                      !.ipns2 = a2, !.path2 = p2, !.copy = cp],
                       Commit(db, MoveOrCopyItem(db, c, a, p, a2, p2, cp)))

(* CreateOrUpdateFolder called for a folder that does not exist yet. *)
ActCreateFolder(AS, PS) ==
    \E a \in AS, p \in PS :
        /\ ~Has(db, dbKeyString(<<N_folders, a, p>>))
        /\ Returns("CreateOrUpdateFolder", [NoArgs EXCEPT !.ipns = a, !.path = p],
                   Commit(db, CreateOrUpdateFolder(db, a, p)))

(* Likewise the calls whose folderFrom does not exist. *)
ActMoveOrCopyFolderTo(AS, PS, TS) ==
    \E a \in AS, p \in PS :
        /\ Has(db, dbKeyString(<<N_folders, a, p>>))
        /\ \E a2 \in AS, p2 \in TS, cp \in BOOLEAN :
               Returns("MoveOrCopyFolder",
                       [NoArgs EXCEPT !.ipns = a, !.path = p,
                                      !.ipns2 = a2, !.path2 = p2, !.copy = cp],
                       MoveOrCopyFolder(db, a, p, a2, p2, cp))

ActMoveOrCopyFolder(AS, PS) == ActMoveOrCopyFolderTo(AS, PS, PS)

(* RemoveItemTag called for a tag the item carries. *)
ActRemoveHeldItemTag(CS, TS) ==
    \E c \in CS, t \in TS :
        /\ HasTag(db, c, t)
        /\ Returns("RemoveItemTag", [NoArgs EXCEPT !.cid = c, !.tag = t],
                   Commit(db, RemoveItemTag(db, c, t)))

(* CreateOrUpdateItem up to its Update transaction: the parameter check and *)
(* the read of iOld.  Other calls may commit before the transaction starts. *)
ActCreateOrUpdateItemRead(CS, TL) ==
    \E c \in CS, ts \in TL :
        /\ flight = Idle
        /\ flight' = [op |-> "CreateOrUpdateItem",
                      args |-> [NoArgs EXCEPT !.cid = c, !.tag = ts],
                      old |-> ReadItem(db, c)]
        /\ UNCHANGED <<db, last, iterPending, codec>>

(* The call in flight returns: its last transaction committed r.db and the *)
(* call returned r.err.                                                    *)
FlightReturns(r) ==
    /\ Bounded(r.db)
    /\ db' = r.db
    /\ last' = [op |-> flight.op, err |-> r.err, args |-> flight.args]
    /\ flight' = Idle
    /\ UNCHANGED <<iterPending, codec>>

(* The Update transaction of the CreateOrUpdateItem in flight, and its return. *)
ActCreateOrUpdateItemWrite ==
    /\ flight.op = "CreateOrUpdateItem"
    /\ \E n \in Names :
           FlightReturns(Commit(db, createOrUpdateItemTxn(db, flight.args.cid, n,
                                                          flight.args.tag, flight.old)))

(* The Update transaction of MoveOrCopyFolder has run and left r: a copy,   *)
(* or a failed call, returns; a move is left in flight.                     *)
CopyDone(args, r) ==
    /\ Bounded(r.db)
    /\ db' = r.db
    /\ IF r.err # "nil" \/ args.copy
       THEN /\ r.err = "nil" \/ r.db # db
            /\ last' = [op |-> "MoveOrCopyFolder", err |-> r.err, args |-> args]
            /\ UNCHANGED flight
       ELSE /\ flight' = [op |-> "MoveOrCopyFolder", args |-> args, old |-> NoItem]
            /\ UNCHANGED last
    /\ UNCHANGED <<iterPending, codec>>

(* MoveOrCopyFolder up to the return of its Update transaction: the checks  *)
(* and the copy.  A move goes on to DelFolder(folderFrom) in a transaction  *)
(* of its own.                                                              *)
ActMoveOrCopyFolderCopy(AS, PS) ==
    \E a \in AS, p \in PS :
        /\ flight = Idle
        /\ Has(db, dbKeyString(<<N_folders, a, p>>))
        /\ \E a2 \in AS, p2 \in PS, cp \in BOOLEAN :
               CopyDone([NoArgs EXCEPT !.ipns = a, !.path = p,
                                       !.ipns2 = a2, !.path2 = p2, !.copy = cp],
                        Commit(db, moveOrCopyFolderTxn(db, a, p, a2, p2)))

(* The DelFolder(folderFrom) of the move in flight, and the move's return. *)
ActMoveOrCopyFolderDel ==
    /\ flight.op = "MoveOrCopyFolder"
    /\ FlightReturns(Commit(db, DelFolder(db, flight.args.ipns, flight.args.path)))

(* AddItemToCollection up to the return of its Update transaction: the     *)
(* membership check and the two membership keys.  A call that fails here   *)
(* has written nothing and returns; otherwise the call goes on to          *)
(* AddItemToFolder(cid, root), which runs its own checks and transaction.  *)
ActAddItemToCollectionMember(CS, AS) ==
    \E c \in CS, a \in AS :
        /\ flight = Idle
        /\ Commit(db, addItemToCollectionTxn(db, c, a)).err = "nil"
        /\ Bounded(Commit(db, addItemToCollectionTxn(db, c, a)).db)
        /\ db' = Commit(db, addItemToCollectionTxn(db, c, a)).db
        /\ flight' = [op |-> "AddItemToCollection",
                      args |-> [NoArgs EXCEPT !.cid = c, !.ipns = a],
                      old |-> NoItem]
        /\ UNCHANGED <<last, iterPending, codec>>

(* The AddItemToFolder(cid, root) of the call in flight, and the call's return. *)
ActAddItemToCollectionRoot ==
    /\ flight.op = "AddItemToCollection"
    /\ FlightReturns(Commit(db, AddItemToFolder(db, flight.args.cid, flight.args.ipns, <<>>)))

(* AddItemToFolder up to its Update transaction: checkCID and             *)
(* IsFolderPathExists, each a View transaction of its own.  A call that    *)
(* fails here returns without a write; otherwise other calls may commit    *)
(* before the Update transaction starts.                                   *)
ActAddItemToFolderCheck(CS, AS, PS) ==
    \E c \in CS, a \in AS, p \in PS :
        /\ flight = Idle
        /\ checkCID(db, c) = "nil"
        /\ IsFolderPathExists(db, a, p).err = "nil"
        /\ IsFolderPathExists(db, a, p).exists
        /\ flight' = [op |-> "AddItemToFolder",
                      args |-> [NoArgs EXCEPT !.cid = c, !.ipns = a, !.path = p],
                      old |-> NoItem]
        /\ UNCHANGED <<db, last, iterPending, codec>>

(* The Update transaction of the AddItemToFolder in flight, and its return. *)
ActAddItemToFolderWrite ==
    /\ flight.op = "AddItemToFolder"
    /\ FlightReturns(Commit(db, addItemToFolderTxn(db, flight.args.cid, flight.args.ipns,
                                                   flight.args.path)))

(***************************************************************************)
(* The recursion of delFolderInTxn and copyFolderInTxn, one call or return *)
(* at a time.  flight.old.stack holds the calls that have not returned,    *)
(* innermost first: path is the folder of the call, to the destination of  *)
(* a copy, todo the children the call's loop has not visited yet; and     *)
(* flight.old.then holds what the call's transactions commit.  Both        *)
(* functions read the children with d.ReadFolderChildren, a View           *)
(* transaction, which sees the committed store and none of the writes of   *)
(* the running transaction.  An error ends the recursion early; the calls  *)
(* of a failing run are a prefix of those followed here.                   *)
(***************************************************************************)
MaxFrames == 4

(* The call entered for the folder p: delFolderInTxn returns at once when  *)
(* the folder does not exist, and copyFolderInTxn fails in ReadFolderItems. *)
EnterFolder(d, ipns, p, to) ==
    IF IsFolderPathExists(d, ipns, p).exists
    THEN <<[path |-> p, to |-> to, todo |-> ReadFolderChildren(d, ipns, p)]>>
    ELSE <<>>

(* What the transactions of MoveOrCopyFolder commit and return: the copy,  *)
(* and for a move that copied without error the DelFolder(folderFrom).     *)
MoveOrCopyFolderPhases(d, a, p, a2, p2, cp) ==
    With(Commit(d, moveOrCopyFolderTxn(d, a, p, a2, p2)), LAMBDA r1 :
        IF r1.err # "nil" \/ cp THEN <<r1>>
        ELSE <<r1, Commit(r1.db, DelFolder(r1.db, a, p))>>)

(* The call op enters its recursion on the store db; phases is what each   *)
(* of its transactions commits once its recursion has returned.            *)
EntersWalk(op, args, stack, phases) ==
    /\ flight = Idle
    /\ \A i \in 1..Len(phases) : Bounded(phases[i].db)
    /\ flight' = [op |-> op, args |-> args, old |-> [stack |-> stack, then |-> phases]]
    /\ UNCHANGED <<db, last, iterPending, codec>>

(* DelFolder up to the first call of delFolderInTxn: the two checks passed. *)
ActDelFolderEnter(AS, PS) ==
    \E a \in AS, p \in PS :
        /\ p # <<>>
        /\ IsFolderPathExists(db, a, p).exists
        /\ EntersWalk("delFolderInTxn", [NoArgs EXCEPT !.ipns = a, !.path = p],
                      EnterFolder(db, a, p, <<>>), <<Commit(db, DelFolder(db, a, p))>>)

(* MoveOrCopyFolder up to the first call of copyFolderInTxn. *)
ActMoveOrCopyFolderEnter(AS, PS, TS) ==
    \E a \in AS, p \in PS, a2 \in AS, p2 \in TS, cp \in BOOLEAN :
        /\ IsFolderPathExists(db, a, p).exists
        /\ checkIPNS(db, a2) = "nil"
        /\ EntersWalk("copyFolderInTxn",
                      [NoArgs EXCEPT !.ipns = a, !.path = p,
                                     !.ipns2 = a2, !.path2 = p2, !.copy = cp],
                      EnterFolder(db, a, p, p2),
                      MoveOrCopyFolderPhases(db, a, p, a2, p2, cp))

(* ActWalkStep whose loop over the children never moves on to the next    *)
(* child.                                                                  *)
ActWalkStepSameChild ==
    /\ flight.op \in {"delFolderInTxn", "copyFolderInTxn"}
    /\ flight.old.stack # <<>>
    /\ LET top == Head(flight.old.stack)
           sub == EnterFolder(db, flight.args.ipns, top.todo[1],
                              IF flight.op = "copyFolderInTxn"
                              THEN top.to \o Slash \o Basename(top.todo[1])
                              ELSE <<>>)
       IN  IF top.todo = <<>>
           THEN flight' = [flight EXCEPT !.old.stack = Tail(flight.old.stack)]
           ELSE /\ Len(sub) + Len(flight.old.stack) <= MaxFrames
                /\ flight' = [flight EXCEPT !.old.stack = sub \o flight.old.stack]
    /\ UNCHANGED <<db, last, iterPending, codec>>

(* One turn of the innermost call's loop over the children: the recursive  *)
(* call for the next child; or, the loop done, the call's return.          *)
ActWalkStep ==
    /\ flight.op \in {"delFolderInTxn", "copyFolderInTxn"}
    /\ flight.old.stack # <<>>
    /\ LET top == Head(flight.old.stack)
           sub == EnterFolder(db, flight.args.ipns, top.todo[1],
                              IF flight.op = "copyFolderInTxn"
                              THEN top.to \o Slash \o Basename(top.todo[1])
                              ELSE <<>>)
       IN  IF top.todo = <<>>
           THEN flight' = [flight EXCEPT !.old.stack = Tail(flight.old.stack)]
           ELSE /\ Len(sub) + Len(flight.old.stack) <= MaxFrames
                /\ flight' = [flight EXCEPT !.old.stack =
                                  sub \o <<[top EXCEPT !.todo = Tail(top.todo)]>>
                                      \o Tail(flight.old.stack)]
    /\ UNCHANGED <<db, last, iterPending, codec>>

(* The outermost call has returned and the transaction commits.  The call *)
(* returns after its last transaction; a move that copied without error    *)
(* goes on to DelFolder(folderFrom), which refuses the root folder and     *)
(* otherwise starts the recursion of delFolderInTxn.                       *)
ActWalkReturn ==
    /\ flight.op \in {"delFolderInTxn", "copyFolderInTxn"}
    /\ flight.old.stack = <<>>
    /\ db' = Head(flight.old.then).db
    /\ IF Len(flight.old.then) = 1
       THEN /\ last' = [op |-> IF flight.args.ipns2 = <<>> THEN "DelFolder"
                               ELSE "MoveOrCopyFolder",
                        err |-> Head(flight.old.then).err, args |-> flight.args]
            /\ flight' = Idle
       ELSE /\ flight' = [flight EXCEPT
                             !.op = "delFolderInTxn",
                             !.old = [stack |-> IF flight.args.path = <<>> THEN <<>>
                                                ELSE EnterFolder(Head(flight.old.then).db,
                                                                 flight.args.ipns,
                                                                 flight.args.path, <<>>),
                                      then |-> Tail(flight.old.then)]]
            /\ UNCHANGED last
    /\ UNCHANGED <<iterPending, codec>>

(***************************************************************************)
(* Spec: the item store and the tag index, operations run one at a time.   *)
(***************************************************************************)
Next ==
    \/ ActCreateOrUpdateItem(CIDs, TagLists)
    \/ ActDelItem(CIDs)
    \/ ActAddItemTag(CIDs, Tags)
    \/ ActRemoveItemTag(CIDs, Tags)

Spec == Init /\ [][Next]_vars


(***************************************************************************)
(* SpecColl: collections, their folders and the membership of one item,    *)
(* operations run one at a time.                                           *)
(***************************************************************************)
CollCIDs == {<<"x">>}

CollPaths == {<<>>}

CollTagLists == TagListsOf({<< <<"a">> >>})

NextColl ==
    \/ ActCreateOrUpdateCollection(Addrs)
    \/ ActDelCollection(Addrs)
    \/ ActCreateOrUpdateItem(CollCIDs, CollTagLists)
    \/ ActAddItemToCollection(CollCIDs, Addrs)
    \/ ActRemoveItemFromCollection(CollCIDs, Addrs)
    \/ ActAddItemToFolder(CollCIDs, Addrs, CollPaths)

SpecColl == Init /\ [][NextColl]_vars

(***************************************************************************)
(* SpecFolder: the root folder and one subfolder of one collection, and    *)
(* the folders of one item.                                                *)
(***************************************************************************)
FolderAddrs == {<<"c">>}

FolderPaths == {<<>>, <<"a">>}

NextFolder ==
    \/ ActCreateOrUpdateCollection(FolderAddrs)
    \/ ActCreateOrUpdateItem(CollCIDs, {<<>>})
    \/ ActCreateOrUpdateFolder(FolderAddrs, FolderPaths)
    \/ ActAddItemToFolder(CollCIDs, FolderAddrs, FolderPaths)
    \/ ActRemoveItemFromFolder(CollCIDs, FolderAddrs, FolderPaths)
    \/ ActMoveOrCopyItem(CollCIDs, FolderAddrs, FolderPaths)
    \/ ActDelFolder(FolderAddrs, FolderPaths)

SpecFolder == Init /\ [][NextFolder]_vars

(***************************************************************************)
(* SpecMove: folders of one collection copied and moved; a move is two     *)
(* transactions, and other calls may commit between them.                  *)
(***************************************************************************)
NextMove ==
    \/ ActCreateOrUpdateCollection(FolderAddrs)
    \/ ActCreateOrUpdateItem(CollCIDs, {<<>>})
    \/ ActAddItemToFolder(CollCIDs, FolderAddrs, FolderPaths)
    \/ ActCreateOrUpdateFolder(FolderAddrs, FolderPaths)
    \/ ActMoveOrCopyFolderCopy(FolderAddrs, FolderPaths)
    \/ ActMoveOrCopyFolderDel

SpecMove == Init /\ [][NextMove]_vars

(***************************************************************************)
(* SpecRace: one item and two unrelated tags; CreateOrUpdateItem reads     *)
(* iOld, and other calls may commit before its transaction does.           *)
(***************************************************************************)
RaceTags == {<< <<"a">> >>, << <<"b">> >>}

NextRace ==
    \/ ActCreateOrUpdateItemRead(CollCIDs, TagListsOf(RaceTags))
    \/ ActCreateOrUpdateItemWrite
    \/ ActCreateOrUpdateItem(CollCIDs, TagListsOf(RaceTags))
    \/ ActDelItem(CollCIDs)
    \/ ActAddItemTag(CollCIDs, RaceTags)
    \/ ActRemoveHeldItemTag(CollCIDs, RaceTags)

SpecRace == Init /\ [][NextRace]_vars

(***************************************************************************)
(* SpecTree: the folder tree of one collection, with two sibling folders   *)
(* of which one's path is a byte prefix of the other's, and a folder       *)
(* inside the longer one; the folders below the root are created, deleted, *)
(* copied and moved, operations run one at a time.                         *)
(***************************************************************************)
TreePaths == {<<"a">>, <<"a", "b">>, <<"a", "b", "/", "a">>}

NextTree ==
    \/ ActCreateOrUpdateCollection(FolderAddrs)
    \/ ActCreateOrUpdateFolder(FolderAddrs, TreePaths)
    \/ ActDelFolder(FolderAddrs, TreePaths)
    \/ ActMoveOrCopyFolder(FolderAddrs, TreePaths)

SpecTree == Init /\ [][NextTree]_vars

(***************************************************************************)
(* SpecMember: one item and two collections; the item is added to the      *)
(* collections, added to and removed from the folders "" and "a" of the    *)
(* first one, and that collection's folders are deleted.                   *)
(***************************************************************************)
NextMember ==
    \/ ActCreateOrUpdateCollectionAs(Addrs, Names, Descriptions)
    \/ ActCreateOrUpdateItem(CollCIDs, {<<>>})
    \/ ActCreateOrUpdateFolder(FolderAddrs, FolderPaths)
    \/ ActAddItemToCollection(CollCIDs, Addrs)
    \/ ActAddItemToFolder(CollCIDs, FolderAddrs, FolderPaths)
    \/ ActRemoveItemFromFolder(CollCIDs, FolderAddrs, FolderPaths)
    \/ ActDelFolder(FolderAddrs, FolderPaths)

SpecMember == Init /\ [][NextMember]_vars

(***************************************************************************)
(* SpecAdd: AddItemToCollection as its two transactions, with the calls of *)
(* other callers committing between them.                                  *)
(***************************************************************************)
NextAdd ==
    \/ ActCreateOrUpdateCollection(Addrs)
    \/ ActCreateOrUpdateItem(CollCIDs, {<<>>})
    \/ ActDelCollection(Addrs)
    \/ ActDelItem(CollCIDs)
    \/ ActRemoveItemFromCollection(CollCIDs, Addrs)
    \/ ActAddItemToCollectionMember(CollCIDs, Addrs)
    \/ ActAddItemToCollectionRoot

SpecAdd == Init /\ [][NextAdd]_vars

(***************************************************************************)
(* SpecCopy: one collection and one item; the folders "a" and "a/b" are    *)
(* created when absent and filled, the folder "a" is copied or moved to    *)
(* "a/b" and to "b", and the three folders are deleted, one call at a time. *)
(***************************************************************************)
SourcePaths == {<<"a">>, <<"a", "/", "b">>}

CopyFrom == {<<"a">>}

CopyPaths == {<<"a", "/", "b">>, <<"b">>}

NextCopy ==
    \/ ActCreateOrUpdateCollection(FolderAddrs)
    \/ ActCreateOrUpdateItem(CollCIDs, {<<>>})
    \/ ActCreateFolder(FolderAddrs, SourcePaths)
    \/ ActAddItemToFolder(CollCIDs, FolderAddrs, SourcePaths)
    \/ ActMoveOrCopyFolderTo(FolderAddrs, CopyFrom, CopyPaths)
    \/ ActDelFolder(FolderAddrs, CopyFrom \cup CopyPaths)

SpecCopy == Init /\ [][NextCopy]_vars

(***************************************************************************)
(* SpecRename: the folders "a" and "a/b" of one collection are created    *)
(* when absent, filled with one item, and copied or moved to "ab", a path  *)
(* the source path "a" is a byte prefix of.                                *)
(***************************************************************************)
RenamePaths == {<<"a", "b">>}

NextRename ==
    \/ ActCreateOrUpdateCollection(FolderAddrs)
    \/ ActCreateOrUpdateItem(CollCIDs, {<<>>})
    \/ ActCreateFolder(FolderAddrs, SourcePaths)
    \/ ActAddItemToFolder(CollCIDs, FolderAddrs, SourcePaths)
    \/ ActMoveOrCopyFolderTo(FolderAddrs, SourcePaths, RenamePaths)

SpecRename == Init /\ [][NextRename]_vars

(***************************************************************************)
(* SpecTags: one item and the tags "a", "a:b" and "ab"; the item is saved, *)
(* tagged, untagged and deleted, one call at a time.                       *)
(***************************************************************************)
NearTags == {<< <<"a">> >>, << <<"a">>, <<"b">> >>, << <<"a", "b">> >>}

NextTags ==
    \/ ActCreateOrUpdateItem(CollCIDs, TagListsOf(NearTags))
    \/ ActDelItem(CollCIDs)
    \/ ActAddItemTag(CollCIDs, NearTags)
    \/ ActRemoveItemTag(CollCIDs, NearTags)

SpecTags == Init /\ [][NextTags]_vars

(***************************************************************************)
(* SpecAddDel: AddItemToFolder as its checks and its transaction, with     *)
(* DelFolder of the folder or of its parent committing between them.       *)
(***************************************************************************)
NextAddDel ==
    \/ ActCreateOrUpdateCollection(FolderAddrs)
    \/ ActCreateOrUpdateItem(CollCIDs, {<<>>})
    \/ ActCreateOrUpdateFolder(FolderAddrs, SourcePaths)
    \/ ActDelFolder(FolderAddrs, SourcePaths)
    \/ ActAddItemToFolderCheck(CollCIDs, FolderAddrs, SourcePaths)
    \/ ActAddItemToFolderWrite

SpecAddDel == Init /\ [][NextAddDel]_vars

(***************************************************************************)
(* SpecWalk: the folders "a" and "a/b" of one collection created, also     *)
(* twice, and deleted; "a" moved and copied onto itself and to "a/b" below *)
(* it; one call at a time, the recursion followed call by call.            *)
(* A call that is running goes on running: every step of the recursion and *)
(* the return are weakly fair.                                             *)
(***************************************************************************)
NextWalk ==
    \/ flight = Idle /\ ActCreateOrUpdateCollection(FolderAddrs)
    \/ flight = Idle /\ ActCreateOrUpdateFolder(FolderAddrs, SourcePaths)
    \/ ActDelFolderEnter(FolderAddrs, SourcePaths)
    \/ ActMoveOrCopyFolderEnter(FolderAddrs, CopyFrom, SourcePaths)
    \/ ActWalkStep
    \/ ActWalkReturn

SpecWalk ==
    Init /\ [][NextWalk]_vars /\ WF_vars(ActWalkStep) /\ WF_vars(ActWalkReturn)

(***************************************************************************)
(* SpecErr: the folders of one collection created and deleted, every call  *)
(* recorded, the failed ones too.                                          *)
(***************************************************************************)
ErrPaths == {<<>>, <<"a">>, <<"a", "/", "b">>}

NextErr ==
    \/ ActCreateOrUpdateCollection(FolderAddrs)
    \/ ActDelCollection(FolderAddrs)
    \/ ActCreateOrUpdateFolderCall(FolderAddrs, ErrPaths)
    \/ ActDelFolderCall(FolderAddrs, ErrPaths)

SpecErr == Init /\ [][NextErr]_vars

(***************************************************************************)
(* SpecCodec: the key codec on its own.  A dbKey of at most MaxSegments    *)
(* segments of at most MaxSegLen bytes, or a key string of at most         *)
(* MaxStrLen bytes, over the separator's byte, the escape's byte and one   *)
(* other, is converted back and forth.                                     *)
(***************************************************************************)
MaxSegments == 2

MaxSegLen == 2

MaxStrLen == 5

CodecChars == {":", "\\", "a"}

StringsUpTo(n) == UNION {[1..k -> CodecChars] : k \in 0..n}

(* The dbKeys of one to n segments: the store builds no dbKey without one. *)
DbKeysUpTo(n, m) == UNION {[1..k -> StringsUpTo(m)] : k \in 1..n}

InitCodec ==
    /\ db = <<>>
    /\ last = [op |-> "none", err |-> "nil", args |-> NoArgs]
    /\ flight = Idle
    /\ iterPending = FALSE
    /\ \/ \E k \in DbKeysUpTo(MaxSegments, MaxSegLen) :
              codec = [have |-> "dbKey", val |-> k, from |-> k, trips |-> 0]
       \/ \E str \in StringsUpTo(MaxStrLen) :
              codec = [have |-> "string", val |-> str, from |-> str, trips |-> 0]

(* k.String() *)
ActDbKeyString ==
    /\ codec.have = "dbKey"
    /\ codec.trips < 2
    /\ codec' = [codec EXCEPT !.have = "string", !.val = dbKeyString(codec.val),
                              !.trips = codec.trips + 1]
    /\ UNCHANGED <<db, last, flight, iterPending>>

(* newDbKeyFromStr(str) *)
ActNewDbKeyFromStr ==
    /\ codec.have = "string"
    /\ codec.trips < 2
    /\ codec' = [codec EXCEPT !.have = "dbKey", !.val = newDbKeyFromStr(codec.val),
                              !.trips = codec.trips + 1]
    /\ UNCHANGED <<db, last, flight, iterPending>>

NextCodec ==
    \/ ActDbKeyString
    \/ ActNewDbKeyFromStr

SpecCodec == InitCodec /\ [][NextCodec]_vars

(***************************************************************************)
(* Properties                                                              *)
(***************************************************************************)
ItemTagKey(c, t) == dbKeyString(<<N_item_tag, c, TagString(t)>>)

TagItemKey(c, t) == dbKeyString(<<N_tag_item, TagString(t), c>>)

(* The items currently associated with tag t. *)
TaggedItems(d, t) == {c \in CIDs : Has(d, ItemTagKey(c, t))}

(* C1: after any sequence of operations run one at a time, the count read  *)
(* for every tag equals the number of items associated with it (0 when     *)
(* there is none).                                                         *)
C1_CountIsAssociations ==
    \A t \in Tags : ReadTagItemCount(db, t) = Cardinality(TaggedItems(db, t))

(* C4: item_tag::C::T exists iff tag_item::T::C exists, and no AddItemTag  *)
(* can hit the integrity panic of addItemTagInTxn.                         *)
C4_TagIndexBothWays ==
    \A c \in CIDs, t \in Tags :
        /\ Has(db, ItemTagKey(c, t)) <=> Has(db, TagItemKey(c, t))
        /\ AddItemTag(db, c, t).err # "panic"

(* C10: a tag has a registry entry iff its count key exists with a value   *)
(* of at least 1; a tag without count is not found by SearchTags and a tag *)
(* with count >= 1 is found by SearchTags of its own string.               *)
C10_RegistryIffCounted ==
    \A t \in Tags :
        LET k == dbKeyString(<<N_tag, TagString(t), A_count>>)
            counted == Has(db, k) /\ db[k] >= 1
        IN  /\ Has(db, dbKeyString(<<N_tags, TagString(t)>>)) <=> counted
            /\ counted <=> t \in SearchTags(db, TagString(t))

(* The keys of the store that reference item c. *)
KeysOfItem(d, c) ==
    {k \in DOMAIN d :
        \/ \E a \in Addrs : k \in {dbKeyString(<<N_collection_item, a, c>>),
                                   dbKeyString(<<N_item_collection, c, a>>)}
        \/ \E a \in Addrs, p \in Paths : k \in {dbKeyString(<<N_folder_item, a, p, c>>),
                                                dbKeyString(<<N_item_folder, c, a, p>>)}
        \/ \E t \in Tags : k \in {ItemTagKey(c, t), TagItemKey(c, t)}}

(* C9: after DelItem(C) succeeds no membership or tag key referencing C    *)
(* remains and ReadItem(C) fails with ErrCIDNotFound.                      *)
C9_DelItemLeavesNothing ==
    (last.op = "DelItem" /\ last.err = "nil") =>
        /\ KeysOfItem(db, last.args.cid) = {}
        /\ ReadItem(db, last.args.cid).err = "ErrCIDNotFound"

(* C2: collection_item::A::C exists iff item_collection::C::A exists. *)
C2_MembershipBothWays ==
    \A a \in Addrs, c \in CIDs :
        Has(db, dbKeyString(<<N_collection_item, a, c>>))
            <=> Has(db, dbKeyString(<<N_item_collection, c, a>>))

(* The keys of the store that belong to collection a: the keys of the      *)
(* collection's own namespaces whose address segment is a, and the         *)
(* back-references of items to a.                                          *)
KeysOfCollection(d, a) ==
    {k \in DOMAIN d :
        LET parts == newDbKeyFromStr(k)
        IN  \/ /\ parts[1] \in {N_collections, N_collections_mine, N_collection,
                                N_collection_item, N_folders, N_folder, N_folder_item}
               /\ Len(parts) >= 2
               /\ parts[2] = a
            \/ /\ parts[1] \in {N_item_collection, N_item_folder}
               /\ Len(parts) >= 3
               /\ parts[3] = a}

(* C7: after DelCollection(A) succeeds no key of A's namespaces and no     *)
(* back-reference of any item to A remains.                                *)
C7_DelCollectionLeavesNothing ==
    (last.op = "DelCollection" /\ last.err = "nil") =>
        KeysOfCollection(db, last.args.ipns) = {}

(* C8: DelCollection never deletes or alters an item: every item reads     *)
(* back as before (existence, name, tags) and every tag count is the same. *)
C8_DelCollectionKeepsItems ==
    [][last'.op = "DelCollection" =>
          /\ \A c \in CIDs : ReadItem(db', c) = ReadItem(db, c)
          /\ \A t \in Tags : ReadTagItemCount(db', t) = ReadTagItemCount(db, t)]_vars

(* A collection was deleted while a tagged item that had been put in its   *)
(* root folder exists.                                                     *)
C8_Witness ==
    /\ last.op = "DelCollection"
    /\ last.err = "nil"
    /\ \E c \in CollCIDs :
           /\ ReadItem(db, c).err = "nil"
           /\ ReadItem(db, c).Tags # <<>>
           /\ \E t \in Tags : ReadTagItemCount(db, t) >= 1
           /\ Has(db, dbKeyString(<<N_folder_item, last.args.ipns, <<>>, c>>))

(* C3: folder_item::A::P::C exists iff item_folder::C::A::P exists. *)
C3_FolderIndexBothWays ==
    \A a \in Addrs, p \in Paths, c \in CIDs :
        Has(db, dbKeyString(<<N_folder_item, a, p, c>>))
            <=> Has(db, dbKeyString(<<N_item_folder, c, a, p>>))

(* C5: a move of a folder is one transaction: nothing of it is committed   *)
(* while the call has not returned, so the step that leaves a move in      *)
(* flight (its copy done, folderFrom not yet deleted, no result returned)  *)
(* leaves the store as it was.                                             *)
C5_MoveFolderOneTransaction ==
    [][(flight = Idle /\ flight'.op = "MoveOrCopyFolder") => db' = db]_vars

(* Every tag's count is the number of items associated with it. *)
CountsRight(d) ==
    \A t \in Tags \cup RaceTags : ReadTagItemCount(d, t) = Cardinality(TaggedItems(d, t))

(* C6: CreateOrUpdateItem has a race window between its read of iOld and   *)
(* its transaction.  With RemoveItemTag called only for tags the item      *)
(* carries, the counts go wrong in no other step than the commit of a      *)
(* CreateOrUpdateItem whose iOld is no longer what the store holds.        *)
C6_CountsBreakOnlyByStaleUpdate ==
    [][(CountsRight(db) /\ ~CountsRight(db')) =>
          /\ flight.op = "CreateOrUpdateItem"
          /\ flight' = Idle
          /\ flight.old # ReadItem(db, flight.args.cid)]_vars

(* A CreateOrUpdateItem has returned without error and a tag's count is    *)
(* not its number of items.                                                *)
C6_Witness ==
    /\ last.op = "CreateOrUpdateItem"
    /\ last.err = "nil"
    /\ ~CountsRight(db)

(* C11: a decrement of a tag's count that would take it below zero is       *)
(* detected.  In every state, RemoveItemTag(C, T) for an existing item C    *)
(* and a tag T whose count is zero or absent fails with                     *)
(* ErrNegativeTagItemCount and commits nothing.                             *)
C11_NegativeDecrementDetected ==
    \A c \in CIDs, t \in Tags :
        (checkCID(db, c) = "nil" /\ ReadTagItemCount(db, t) = 0) =>
            /\ RemoveItemTag(db, c, t).err = "ErrNegativeTagItemCount"
            /\ Commit(db, RemoveItemTag(db, c, t)).db = db

(* The set of the entries of a list. *)
Range(f) == {f[i] : i \in DOMAIN f}

(* C12: after CreateOrUpdateItem(i) succeeds, ReadItem(i.CID) returns       *)
(* i.Name and the tags of i.Tags, as a set: no tag of the previous version  *)
(* that is not in i.Tags, and no tag of another item.                       *)
C12_ItemReadsBackAsSaved ==
    (last.op = "CreateOrUpdateItem" /\ last.err = "nil") =>
        /\ ReadItem(db, last.args.cid).ok
        /\ ReadItem(db, last.args.cid).Name = last.args.name
        /\ Range(ReadItem(db, last.args.cid).Tags) = Range(last.args.tag)

(* C13: the key codec is a pair of mutual inverses: a dbKey converted to    *)
(* its string and back is the same dbKey, and a key string converted to a   *)
(* dbKey and back is the same string.                                       *)
C13_CodecRoundTrips ==
    codec.trips = 2 => codec.val = codec.from

(* C14: ReadCollection(A) after a successful CreateOrUpdateCollection of   *)
(* {A, name, description, isMine} returns exactly that address, name,      *)
(* description and owned flag, on a first save and on every later one.     *)
C14_CollectionReadsBackAsSaved ==
    (last.op = "CreateOrUpdateCollection" /\ last.err = "nil") =>
        ReadCollection(db, last.args.ipns) =
            [err |-> "nil", IPNSAddress |-> last.args.ipns, Name |-> last.args.name,
             Description |-> last.args.desc, IsMine |-> last.args.copy]

(* C15: CreateOrUpdateCollection is idempotent.  In the state a successful *)
(* CreateOrUpdateCollection has left, the same call again succeeds and      *)
(* leaves the whole store as it is.                                        *)
C15_CreateCollectionIdempotent ==
    (last.op = "CreateOrUpdateCollection" /\ last.err = "nil") =>
        /\ CreateOrUpdateCollection(db, last.args.ipns, last.args.name,
                                    last.args.desc, last.args.copy).err = "nil"
        /\ Commit(db, CreateOrUpdateCollection(db, last.args.ipns, last.args.name,
                                               last.args.desc, last.args.copy)).db = db

(* A collection was saved again while its root folder lists a child folder *)
(* and holds an item.                                                      *)
C15_Witness ==
    /\ last.op = "CreateOrUpdateCollection"
    /\ last.err = "nil"
    /\ ReadFolderChildren(db, last.args.ipns, <<>>) # <<>>
    /\ ReadFolderItems(db, last.args.ipns, <<>>) # <<>>

(* C16: after any sequence of CreateOrUpdateCollection and DelCollection   *)
(* calls, collections_mine::A exists iff collection A exists and the       *)
(* owned-by-me flag last written for it is true.                           *)
C16_OwnedIndexMatchesFlag ==
    \A a \in Addrs :
        Has(db, dbKeyString(<<N_collections_mine, a>>)) <=>
            /\ checkIPNS(db, a) = "nil"
            /\ Has(db, dbKeyString(<<N_collection, a, A_ismine>>))
            /\ db[dbKeyString(<<N_collection, a, A_ismine>>)] = <<"1">>

(* C17: for every existing collection A, IsCollectionEmpty(A) is true iff  *)
(* no item is a member of A (no collection_item::A::C key); the members of *)
(* another collection do not count.                                        *)
C17_EmptyIffNoMember ==
    \A a \in Addrs :
        checkIPNS(db, a) = "nil" =>
            (IsCollectionEmpty(db, a) <=>
                \A c \in CIDs : ~Has(db, dbKeyString(<<N_collection_item, a, c>>)))

(* The folders of collection a that exist: the paths of its markers. *)
FoldersOf(d, a) ==
    {newDbKeyFromStr(k)[3] :
        k \in {x \in PrefixKeys(d, dbKeyString(<<N_folders, a>>)) :
                 newDbKeyFromStr(x)[2] = a}}

(* C19: every existing non-root folder (A, P) has an existing immediate    *)
(* parent folder (A, ParentPath(P)).                                       *)
C19_NoOrphanFolder ==
    \A a \in Addrs :
        \A p \in FoldersOf(db, a) :
            p # <<>> => ParentPath(p) \in FoldersOf(db, a)

(* C20: for every existing folder P, the paths ReadFolderChildren(P)       *)
(* returns are, as a set, the existing folders whose immediate parent      *)
(* path is P.                                                              *)
C20_ChildrenAreTheSubfolders ==
    \A a \in Addrs :
        \A p \in FoldersOf(db, a) :
            Range(ReadFolderChildren(db, a, p)) =
                {q \in FoldersOf(db, a) : q # <<>> /\ ParentPath(q) = p}

(* C18: every existing collection has its root folder.  After every step,  *)
(* ReadFolder(A, "") succeeds for every A for which ReadCollection(A)      *)
(* succeeds; and a root folder that ReadFolder finds is still found after  *)
(* any operation other than the DelCollection of its own collection.       *)
C18_RootFolderStays ==
    [][\A a \in Addrs :
          /\ ReadCollection(db', a).err = "nil" => ReadFolder(db', a, <<>>) = "nil"
          /\ (/\ ReadFolder(db, a, <<>>) = "nil"
              /\ ~(last'.op = "DelCollection" /\ last'.args.ipns = a))
                 => ReadFolder(db', a, <<>>) = "nil"]_vars

(* C21: no folder's children list holds the same child twice. *)
C21_ChildrenListedOnce ==
    \A a \in Addrs :
        \A p \in FoldersOf(db, a) :
            \A i, j \in 1..Len(ReadFolderChildren(db, a, p)) :
                ReadFolderChildren(db, a, p)[i] = ReadFolderChildren(db, a, p)[j] => i = j

(* C22: CreateOrUpdateFolder of a collection that exists, for a path whose *)
(* immediate parent is not the root and does not exist, fails with         *)
(* ErrParentFolderNotExists and leaves the store as it was.                *)
C22_MissingParentRefused ==
    [][(/\ last'.op = "CreateOrUpdateFolder"
        /\ checkIPNS(db, last'.args.ipns) = "nil"
        /\ ParentPath(last'.args.path) # <<>>
        /\ ~Has(db, dbKeyString(<<N_folders, last'.args.ipns,
                                  ParentPath(last'.args.path)>>)))
          => (last'.err = "ErrParentFolderNotExists" /\ db' = db)]_vars

(* CreateOrUpdateFolder was refused for a missing parent in a collection   *)
(* that has its root folder.                                               *)
C22_Witness ==
    /\ last.op = "CreateOrUpdateFolder"
    /\ last.err = "ErrParentFolderNotExists"
    /\ ParentPath(last.args.path) # <<>>
    /\ ReadFolder(db, last.args.ipns, <<>>) = "nil"
    /\ ReadFolder(db, last.args.ipns, ParentPath(last.args.path)) = "ErrFolderNotExists"
    /\ ReadFolder(db, last.args.ipns, last.args.path) = "ErrFolderNotExists"

(* C29: DelFolder of the root path fails with ErrCantDelRootFolder and     *)
(* leaves the store as it was, whether the collection exists or not.       *)
C29_RootDeleteRefused ==
    [][(last'.op = "DelFolder" /\ last'.args.path = <<>>)
          => (last'.err = "ErrCantDelRootFolder" /\ db' = db)]_vars

(* DelFolder was called on the root folder of a collection that exists and *)
(* has a subfolder.                                                        *)
C29_Witness ==
    /\ last.op = "DelFolder"
    /\ last.args.path = <<>>
    /\ last.err = "ErrCantDelRootFolder"
    /\ ReadFolder(db, last.args.ipns, <<>>) = "nil"
    /\ Len(ReadFolderChildren(db, last.args.ipns, <<>>)) > 0

(* DelFolder was called on the root path of a collection that is absent.   *)
C29_WitnessAbsent ==
    /\ last.op = "DelFolder"
    /\ last.args.path = <<>>
    /\ last.err = "ErrCantDelRootFolder"
    /\ checkIPNS(db, last.args.ipns) # "nil"

(* The folder f itself and the folders below it. *)
InSubtree(p, f) == p = f \/ HasPrefix(p, f \o Slash)

(* C23: after DelFolder(f) succeeded on a non-root folder, neither f nor a *)
(* folder below it exists, no item is in one of them in either index, and  *)
(* f is not in the children list of its parent.                            *)
C23_DeletedSubtreeIsGone ==
    (last.op = "DelFolder" /\ last.err = "nil") =>
        /\ \A p \in Paths :
               InSubtree(p, last.args.path) =>
                   /\ ~Has(db, dbKeyString(<<N_folders, last.args.ipns, p>>))
                   /\ \A v \in CIDs :
                          /\ ~Has(db, dbKeyString(<<N_folder_item, last.args.ipns, p, v>>))
                          /\ ~Has(db, dbKeyString(<<N_item_folder, v, last.args.ipns, p>>))
        /\ \A i \in 1..Len(ReadFolderChildren(db, last.args.ipns, ParentPath(last.args.path))) :
               ReadFolderChildren(db, last.args.ipns, ParentPath(last.args.path))[i] # last.args.path

(* The item is a member of the collection. *)
InCollection(d, v, a) == Has(d, dbKeyString(<<N_collection_item, a, v>>))

(* The item is in some folder of the collection. *)
InSomeFolder(d, v, a) == \E p \in Paths : Has(d, dbKeyString(<<N_item_folder, v, a, p>>))

(* The item is in the folder f of the collection or in a folder below f. *)
InFolderSubtree(d, v, a, f) ==
    \E p \in Paths : InSubtree(p, f) /\ Has(d, dbKeyString(<<N_folder_item, a, p, v>>))

(* C24: when DelFolder(f) succeeds, a member of the collection that was in *)
(* f or below it is a member afterwards exactly if it is still in some     *)
(* folder of the collection.                                               *)
C24_DelFolderKeepsMembersInFolders ==
    [][(last'.op = "DelFolder" /\ last'.err = "nil") =>
          \A v \in CIDs :
              (/\ InFolderSubtree(db, v, last'.args.ipns, last'.args.path)
               /\ InCollection(db, v, last'.args.ipns))
                  => (InCollection(db', v, last'.args.ipns)
                          <=> InSomeFolder(db', v, last'.args.ipns))]_vars

(* C25: after RemoveItemFromFolder succeeded, an item left in no folder of *)
(* the collection is not a member of the collection: IsItemInCollection is *)
(* false and ReadCollectionItems does not list it.                         *)
C25_RemovedFromLastFolderLeavesCollection ==
    (/\ last.op = "RemoveItemFromFolder"
     /\ last.err = "nil"
     /\ ~InSomeFolder(db, last.args.cid, last.args.ipns))
        => /\ ~IsItemInCollection(db, last.args.cid, last.args.ipns).exist
           /\ \A i \in 1..Len(ReadCollectionItems(db, last.args.ipns)) :
                  ReadCollectionItems(db, last.args.ipns)[i] # last.args.cid

(* C28: when AddItemToCollection returns nil the item is a member of the   *)
(* collection and of its root folder; when it returns an error, the call   *)
(* has left neither the membership keys it wrote nor the item in the root  *)
(* folder.                                                                 *)
C28_AddItemToCollectionAllOrNothing ==
    [][(flight.op = "AddItemToCollection" /\ flight' = Idle) =>
          IF last'.err = "nil"
          THEN /\ IsItemInCollection(db', flight.args.cid, flight.args.ipns).exist
               /\ InCollection(db', flight.args.cid, flight.args.ipns)
               /\ Has(db', dbKeyString(<<N_item_folder, flight.args.cid, flight.args.ipns, <<>>>>))
               /\ Has(db', dbKeyString(<<N_folder_item, flight.args.ipns, <<>>, flight.args.cid>>))
          ELSE /\ ~InCollection(db', flight.args.cid, flight.args.ipns)
               /\ ~Has(db', dbKeyString(<<N_item_collection, flight.args.cid, flight.args.ipns>>))
               /\ ~Has(db', dbKeyString(<<N_item_folder, flight.args.cid, flight.args.ipns, <<>>>>))]_vars

(* The two index keys of the item cid in the folder path of the collection ipns. *)
ItemFolderKeys(cid, ipns, path) ==
    {dbKeyString(<<N_item_folder, cid, ipns, path>>),
     dbKeyString(<<N_folder_item, ipns, path, cid>>)}

(* C30: a successful AddItemToFolder(cid, f) sets the two index keys of    *)
(* cid in f and leaves every other key as it was, the membership of the    *)
(* item in f's collection included.                                        *)
C30_AddItemToFolderFrame ==
    [][(last'.op = "AddItemToFolder" /\ last'.err = "nil") =>
          /\ ItemFolderKeys(last'.args.cid, last'.args.ipns, last'.args.path) \subseteq DOMAIN db'
          /\ \A k \in (DOMAIN db \cup DOMAIN db')
                        \ ItemFolderKeys(last'.args.cid, last'.args.ipns, last'.args.path) :
                 /\ k \in DOMAIN db
                 /\ k \in DOMAIN db'
                 /\ db'[k] = db[k]
          /\ InCollection(db', last'.args.cid, last'.args.ipns)
                 <=> InCollection(db, last'.args.cid, last'.args.ipns)]_vars

(* AddItemToFolder has put the item in the folder "a" of a collection it   *)
(* is not a member of.                                                     *)
C30_Witness ==
    /\ last.op = "AddItemToFolder"
    /\ last.err = "nil"
    /\ last.args.path # <<>>
    /\ ItemFolderKeys(last.args.cid, last.args.ipns, last.args.path) \subseteq DOMAIN db
    /\ ~InCollection(db, last.args.cid, last.args.ipns)
    /\ ~IsItemInCollection(db, last.args.cid, last.args.ipns).exist

(* The path under toP of the folder p of the subtree of fromP: toP for     *)
(* fromP itself, and toP/x/... for fromP/x/...                             *)
Counterpart(p, fromP, toP) ==
    IF p = fromP THEN toP
    ELSE toP \o Slash \o SubSeq(p, Len(fromP) + 2, Len(p))

(* What the store holds of the folder p of the collection a: its marker,   *)
(* its children list and the two index keys of every item.                 *)
FolderKeys(a, p) ==
    {dbKeyString(<<N_folders, a, p>>), dbKeyString(<<N_folder, a, p, A_children>>)}
        \cup UNION {ItemFolderKeys(v, a, p) : v \in CIDs}

(* The store d2 holds under the keys ks what the store d1 holds. *)
SameOn(d1, d2, ks) ==
    \A k \in ks : /\ Has(d1, k) <=> Has(d2, k)
                  /\ Has(d1, k) => d1[k] = d2[k]

C27_MoveLeavesContentUnderTo ==
    [][(/\ last'.op = "MoveOrCopyFolder"
        /\ last'.err = "nil"
        /\ ~last'.args.copy)
          => /\ \A p \in FoldersOf(db, last'.args.ipns) :
                    InSubtree(p, last'.args.path) =>
                        ~Has(db', dbKeyString(<<N_folders, last'.args.ipns, p>>))
             /\ Has(db', dbKeyString(<<N_folders, last'.args.ipns2, last'.args.path2>>))
             /\ \A v \in CIDs :
                    Has(db, dbKeyString(<<N_folder_item, last'.args.ipns, last'.args.path, v>>))
                        => /\ v \in Range(ReadFolderItems(db', last'.args.ipns2, last'.args.path2))
                           /\ IsItemInFolder(db', v, last'.args.ipns2, last'.args.path2).inFolder
             /\ \A child \in Range(ReadFolderChildren(db, last'.args.ipns, last'.args.path)) :
                    Counterpart(child, last'.args.path, last'.args.path2)
                        \in Range(ReadFolderChildren(db', last'.args.ipns2, last'.args.path2))]_vars

(* The prefixes searched for: whole tags, a tag cut inside a segment and   *)
(* after a colon, and a string no tag starts with.                        *)
SearchPrefixes ==
    {<<"a">>, <<"a", ":">>, <<"a", ":", "b">>, <<"a", "b">>, <<"b">>, <<"a", ":", "b", ":">>}

(* The tags with a registry entry whose string starts with prefix. *)
RegisteredWithPrefix(d, prefix) ==
    {t \in NearTags : /\ Has(d, dbKeyString(<<N_tags, TagString(t)>>))
                      /\ HasPrefix(TagString(t), prefix)}

(* C31: SearchTags(p) for a non-empty prefix p returns exactly the tags    *)
(* that have a registry entry and whose colon-joined string starts with p, *)
(* also when p ends inside a segment.                                      *)
C31_SearchTagsIsPrefixMatch ==
    \A p \in SearchPrefixes : SearchTags(db, p) = RegisteredWithPrefix(db, p)

(* The three tags are registered: the search for "a" finds all of them,    *)
(* the search for "a:" finds "a:b" only.                                   *)
C31_Witness ==
    /\ Cardinality(SearchTags(db, <<"a">>)) = 3
    /\ SearchTags(db, <<"a", ":">>) = {<< <<"a">>, <<"b">> >>}
    /\ SearchTags(db, <<"b">>) = {}

(* The tags whose associations the operation recorded in l changes when it *)
(* runs on the store d.                                                    *)
TouchedTags(d, l) ==
    LET old == IF ReadItem(d, l.args.cid).ok THEN Range(ReadItem(d, l.args.cid).Tags) ELSE {}
    IN  CASE l.op \in {"AddItemTag", "RemoveItemTag"} -> {l.args.tag}
          [] l.op = "CreateOrUpdateItem" ->
                 (old \ Range(l.args.tag)) \cup (Range(l.args.tag) \ old)
          [] l.op = "DelItem" -> old
          [] OTHER -> {}

(* C36: a successful AddItemTag, RemoveItemTag, CreateOrUpdateItem or       *)
(* DelItem leaves the reference count and the registry entry of every tag  *)
(* whose associations it does not change as they were.                     *)
C36_OtherTagsUntouched ==
    [][\A t \in NearTags \ TouchedTags(db, last') :
          (/\ last'.op \in {"AddItemTag", "RemoveItemTag", "CreateOrUpdateItem", "DelItem"}
           /\ last'.err = "nil")
          => /\ ReadTagItemCount(db', t) = ReadTagItemCount(db, t)
             /\ Has(db', dbKeyString(<<N_tags, TagString(t)>>))
                    = Has(db, dbKeyString(<<N_tags, TagString(t)>>))]_vars

(* C33: for every existing folder f, ReadFolderItems(f) lists each item     *)
(* once and lists exactly the items for which IsItemInFolder(cid, f) is    *)
(* true.                                                                   *)
C33_FolderItemsAreTheDirectMembers ==
    \A a \in FolderAddrs, p \in FolderPaths :
        IsFolderPathExists(db, a, p).exists
        => /\ Cardinality(Range(ReadFolderItems(db, a, p))) = Len(ReadFolderItems(db, a, p))
           /\ Range(ReadFolderItems(db, a, p))
                  = {cid \in CollCIDs : IsItemInFolder(db, cid, a, p).inFolder}

(* C34: a successful DelCollection(A) leaves every other collection B as   *)
(* it was: ReadCollection(B) returns the same fields, B's root folder is   *)
(* found as before, and B holds the same items, in the collection and in   *)
(* its root folder.                                                        *)
C34_DelCollectionKeepsOtherCollections ==
    [][(last'.op = "DelCollection" /\ last'.err = "nil")
       => \A b \in Addrs \ {last'.args.ipns} :
              /\ ReadCollection(db', b) = ReadCollection(db, b)
              /\ ReadFolder(db', b, <<>>) = ReadFolder(db, b, <<>>)
              /\ ReadCollectionItems(db', b) = ReadCollectionItems(db, b)
              /\ \A c \in CollCIDs :
                     /\ IsItemInCollection(db', c, b) = IsItemInCollection(db, c, b)
                     /\ IsItemInFolder(db', c, b, <<>>) = IsItemInFolder(db, c, b, <<>>)]_vars

(* C35: a successful DelFolder(f) changes nothing outside f's subtree but  *)
(* the children list of f's parent, which loses f: every folder that is    *)
(* neither f nor below f exists as before, has the same children list and  *)
(* the same item membership keys in both index directions.                 *)
C35_DelFolderKeepsOtherFolders ==
    [][(last'.op = "DelFolder" /\ last'.err = "nil")
       => \A p \in ({<<>>} \cup TreePaths) :
              ~InSubtree(p, last'.args.path)
              => /\ IsFolderPathExists(db', last'.args.ipns, p)
                        = IsFolderPathExists(db, last'.args.ipns, p)
                 /\ ReadFolderChildren(db', last'.args.ipns, p)
                        = IF p = ParentPath(last'.args.path)
                          THEN RemoveChild(ReadFolderChildren(db, last'.args.ipns, p),
                                           last'.args.path)
                          ELSE ReadFolderChildren(db, last'.args.ipns, p)
                 /\ \A v \in CollCIDs :
                        SameOn(db, db', ItemFolderKeys(v, last'.args.ipns, p))]_vars

(* The item v is in the folder (a, p) of the store d according to           *)
(* IsItemInFolder, and according to ReadFolderItems.                       *)
InFolderByCheck(d, v, a, p) == IsItemInFolder(d, v, a, p).inFolder

InFolderByList(d, v, a, p) == v \in Range(ReadFolderItems(d, a, p))

(* C37: after MoveOrCopyItem(cid, from, to, copy) returned nil with         *)
(* from # to, the item is in `to` according to IsItemInFolder and to       *)
(* ReadFolderItems; with copy = false it is no longer in `from` according  *)
(* to either, with copy = true it is in `from` according to both.          *)
C37_MoveOrCopyItemPlacesItem ==
    (/\ last.op = "MoveOrCopyItem"
     /\ last.err = "nil"
     /\ <<last.args.ipns, last.args.path>> # <<last.args.ipns2, last.args.path2>>)
    => /\ InFolderByCheck(db, last.args.cid, last.args.ipns2, last.args.path2)
       /\ InFolderByList(db, last.args.cid, last.args.ipns2, last.args.path2)
       /\ InFolderByCheck(db, last.args.cid, last.args.ipns, last.args.path) = last.args.copy
       /\ InFolderByList(db, last.args.cid, last.args.ipns, last.args.path) = last.args.copy

(* C38: whenever no call is in flight, every folder_item / item_folder     *)
(* entry of the store names a folder that exists, however the steps of     *)
(* AddItemToFolder and the DelFolder calls were interleaved.               *)
C38_NoMembershipOfDeletedFolder ==
    flight = Idle
    => \A v \in CollCIDs, a \in FolderAddrs, p \in SourcePaths :
           (\/ Has(db, dbKeyString(<<N_folder_item, a, p, v>>))
            \/ Has(db, dbKeyString(<<N_item_folder, v, a, p>>)))
           => Has(db, dbKeyString(<<N_folders, a, p>>))

(* The step is the return of the call op, not a step of a call in flight. *)
Returned(op) == last'.op = op /\ flight' = flight

(* C32: a successful DelCollection(A) leaves ReadCollection(A) answering   *)
(* ErrIPNSNotFound, and a successful DelItem(C) leaves ReadItem(C)         *)
(* answering ErrCIDNotFound; an entity that reads as not found keeps       *)
(* reading so over every step that is not the return of a                  *)
(* CreateOrUpdateCollection(A), respectively CreateOrUpdateItem(C).        *)
C32_DeletedStaysNotFound ==
    [][/\ \A a \in Addrs :
              /\ (Returned("DelCollection") /\ last'.err = "nil" /\ last'.args.ipns = a)
                     => ReadCollection(db', a).err = "ErrIPNSNotFound"
              /\ (/\ ReadCollection(db, a).err = "ErrIPNSNotFound"
                  /\ ~(Returned("CreateOrUpdateCollection") /\ last'.args.ipns = a))
                     => ReadCollection(db', a).err = "ErrIPNSNotFound"
       /\ \A c \in CollCIDs :
              /\ (Returned("DelItem") /\ last'.err = "nil" /\ last'.args.cid = c)
                     => ReadItem(db', c).err = "ErrCIDNotFound"
              /\ (/\ ReadItem(db, c).err = "ErrCIDNotFound"
                  /\ ~(Returned("CreateOrUpdateItem") /\ last'.args.cid = c))
                     => ReadItem(db', c).err = "ErrCIDNotFound"]_vars

(* An item was just deleted and reads as not found, while the collection   *)
(* "c", deleted after "cd" had been created, still reads as not found.     *)
C32_Witness ==
    /\ last.op = "DelItem"
    /\ last.err = "nil"
    /\ ReadItem(db, last.args.cid).err = "ErrCIDNotFound"
    /\ ReadCollection(db, <<"c">>).err = "ErrIPNSNotFound"
    /\ ReadCollection(db, <<"c", "d">>).err = "ErrKeyNotFound"

(* C39: DelFolder and MoveOrCopyFolder always return: whenever the         *)
(* recursion of delFolderInTxn or copyFolderInTxn is running, the call     *)
(* later returns, also when `to` is `from` or lies below `from` and when a *)
(* children list holds an entry twice.                                     *)
C39_FolderCallsReturn ==
    (flight.op \in {"delFolderInTxn", "copyFolderInTxn"}) ~> (flight = Idle)

(* A move of a folder to a path below itself has returned nil. *)
C39_Witness ==
    /\ flight = Idle
    /\ last.op = "MoveOrCopyFolder"
    /\ last.err = "nil"
    /\ ~last.args.copy
    /\ HasPrefix(last.args.path2, last.args.path \o Slash)

====
